---- MODULE Spec2Model ----
(***************************************************************************)
(* Weightwatch: the weight-entry store (services/dataService.ts), the App  *)
(* handlers that drive it, and the backup import (components/DataBackup).  *)
(*                                                                         *)
(* Representation.                                                         *)
(*  - A date string "YYYY-MM-DD" is the triple <<y, m, d>> of its three    *)
(*    digit groups; string equality is tuple equality.                     *)
(*  - A weight is an integer number of 1/100 kg (112.35 kg = 11235).       *)
(*  - A derived field (changeKg, changePercent, dailyChange) is an exact   *)
(*    fraction <<n, d>> in lowest terms, d > 0, in kg or percent.          *)
(*  - A time value is <<t>> (days since the civil epoch) or <<>> for NaN.  *)
(*  - null/undefined is the empty sequence, a present value v is <<v>>.    *)
(***************************************************************************)
EXTENDS Integers, Sequences, FiniteSets, TLC

VARIABLES
    lsEntries,        \* localStorage['weightwatch-entries']
    lsTarget,         \* localStorage['weightwatch-target']
    lsAchievements,   \* localStorage['weightwatch-achievements']
    lsTheme,          \* localStorage['weightwatch-theme']
    lsTimelineView,   \* localStorage['weightwatch-timeline-view']
    lsReminder,       \* localStorage['weightwatch-reminder-settings']
    loading,          \* App state: loading
    entries,          \* App state: entries
    targetData,       \* App state: targetData (<<>> is null)
    reloadTimer,      \* the reload that restoreBackup schedules is pending
    op,               \* the handler that ran last, its input and outcome
    document,         \* codec check: the parsed file content handed to validateBackupData
    validation,       \* codec check: what validateBackupData returned (<<>> before the call)
    tokenClient,      \* GoogleSheetsService: the token client exists
    callback,         \* tokenClient.callback: the handler installed, then the ones it restores
    requests,         \* token requests the identity service has not answered yet
    token,            \* gapi.client.getToken(): <<>> is null, <<s>> a token, s: it carries the scope
    tokenRefreshTimer,\* GoogleSheetsService.tokenRefreshTimer (<<>> is null)
    intervals,        \* the handles of the intervals that are active
    isSignedIn,       \* Settings state: isSignedIn
    signInPending,    \* the promise of the last signIn call is not settled
    syncStatus,       \* GoogleSheetsService.syncStatus
    lastSyncTime,     \* GoogleSheetsService.lastSyncTime (<<>> is null)
    syncs,            \* the syncFromSheets calls so far with their two fetches
    lsOnboarding,     \* localStorage['weightwatch-onboarding-completed']
    showOnboarding,   \* App state: showOnboarding
    isVisible,        \* OnboardingModal state: isVisible
    currentStep,      \* OnboardingModal state: currentStep
    lsDismissed,      \* localStorage['pwa-install-dismissed']
    now,              \* Date.now(), in whole days
    listening,        \* PWAInstallPrompt: its two window listeners are registered
    deferredPrompt,   \* PWAInstallPrompt state: deferredPrompt is set
    showPrompt,       \* PWAInstallPrompt state: showPrompt
    isInstalled,      \* PWAInstallPrompt state: isInstalled
    showTimers,       \* the 30-second timers of the component that have not fired
    dynamicCache,     \* service worker: the number of entries of DYNAMIC_CACHE
    handlers,         \* service worker: the fetch handlers and what they left running
    adds              \* the addWeightEntry calls of the page so far

lsVars == <<lsEntries, lsTarget, lsAchievements, lsTheme, lsTimelineView, lsReminder>>

codecVars == <<document, validation>>

appVars == <<loading, entries, targetData, reloadTimer>>

authVars == <<tokenClient, callback, requests, token, tokenRefreshTimer, intervals,
              isSignedIn, signInPending>>

syncVars == <<syncStatus, lastSyncTime, syncs>>

onboardingVars == <<lsOnboarding, showOnboarding, isVisible, currentStep>>

installVars == <<lsDismissed, now, listening, deferredPrompt, showPrompt, isInstalled,
                 showTimers>>

workerVars == <<dynamicCache, handlers>>

componentVars == <<authVars, syncVars, onboardingVars, installVars, workerVars, adds>>

vars == <<lsVars, appVars, op, codecVars, componentVars>>

-----------------------------------------------------------------------------
(* Bounds *)

SeedLen == 3        \* how many rows of mockWeightData the seed keeps
MaxEntries == 4     \* addWeightEntry is not called on a longer collection
MaxDocLen == 2      \* longest entries array of a backup document
MaxTextLen == 4     \* most tokens of a free-text value of a document
MaxRequests == 2    \* most token requests waiting for their response
MaxSyncs == 2       \* syncFromSheets is not called more often
MaxShowTimers == 2  \* most show timers of the install prompt waiting to fire
MaxDays == 8        \* the clock is followed for so many days
MaxHandlers == 2    \* most fetch handlers of the service worker at work at once
MaxCalls == 2       \* addWeightEntry calls that wait for their timer are followed up to this
MaxUrls == 52       \* no request for a new URL when so many keys are cached or on their way

-----------------------------------------------------------------------------
(* Numbers *)

Abs(x) == IF x < 0 THEN -x ELSE x

Max(a, b) == IF a >= b THEN a ELSE b

Min(a, b) == IF a <= b THEN a ELSE b

RECURSIVE GCD(_, _)
GCD(a, b) == IF b = 0 THEN a ELSE GCD(b, a % b)

\* the number n/d (d # 0) in lowest terms
Frac(n, d) ==
    LET g == GCD(Abs(n), Abs(d))
        s == IF d < 0 THEN -1 ELSE 1
    IN  <<(s * n) \div g, (s * d) \div g>>

Zero == <<0, 1>>

\* floor of n/d for d > 0 (Math.floor)
FloorDiv(n, d) == n \div d

\* Math.round(x * 100) / 100 of the fraction x = <<n, d>>: the nearest
\* multiple of 1/100, ties towards +infinity, as hundredths
RoundHundredths(x) == (200 * x[1] + x[2]) \div (2 * x[2])

-----------------------------------------------------------------------------
(* Dates: new Date("YYYY-MM-DD").getTime(), in days *)

IsLeap(y) == (y % 4 = 0 /\ y % 100 # 0) \/ y % 400 = 0

DaysInMonth(y, m) ==
    IF m = 2 THEN (IF IsLeap(y) THEN 29 ELSE 28)
    ELSE IF m \in {4, 6, 9, 11} THEN 30 ELSE 31

RECURSIVE DaysBeforeMonth(_, _)
DaysBeforeMonth(y, m) ==
    IF m <= 1 THEN 0 ELSE DaysBeforeMonth(y, m - 1) + DaysInMonth(y, m - 1)

DaysBeforeYear(y) ==
    365 * (y - 1) + ((y - 1) \div 4) - ((y - 1) \div 100) + ((y - 1) \div 400)

DayNumber(s) == DaysBeforeYear(s[1]) + DaysBeforeMonth(s[1], s[2]) + s[3]

\* A date-only ISO string with a month outside 1..12 or a day outside
\* 1..31 is an Invalid Date (time value NaN) in every engine.  Days 29..31
\* beyond the month's length are engine-dependent and are not used here.
IsCalendarDate(s) ==
    /\ s[2] \in 1..12
    /\ s[3] \in 1..DaysInMonth(s[1], s[2])

\* new Date(s).getTime() in days: <<t>>, or <<>> for NaN
getTime(s) == IF IsCalendarDate(s) THEN <<DayNumber(s)>> ELSE <<>>

\* a - b of two time values (NaN when either is NaN)
TimeDiff(a, b) == IF a = <<>> \/ b = <<>> THEN <<>> ELSE <<a[1] - b[1]>>

\* a < b and a > b on Date objects: false when either side is NaN
DateLess(a, b) == a # <<>> /\ b # <<>> /\ a[1] < b[1]

DateGreater(a, b) == a # <<>> /\ b # <<>> /\ a[1] > b[1]

\* the current date of the session
Today == <<2026, 11, 3>>

WeekDayNames ==
    <<"Sunday", "Monday", "Tuesday", "Wednesday", "Thursday", "Friday", "Saturday">>

\* date-fns format(new Date(date), 'EEEE'): the name of the day of the week.
\* A string is a sequence of tokens; a day name is one token.
weekDayOf(s) == <<WeekDayNames[(DayNumber(s) % 7) + 1]>>

-----------------------------------------------------------------------------
(* The seed data *)

Entry(date, weekDay, weight, changePercent, changeKg, dailyChange) ==
    [date |-> date, weekDay |-> weekDay, weight |-> weight,
     changePercent |-> changePercent, changeKg |-> changeKg,
     dailyChange |-> dailyChange]

mockWeightDataFull == <<
    Entry(<<2025, 9, 28>>, weekDayOf(<<2025, 9, 28>>), 11235, Zero, Zero, Zero),
    Entry(<<2025, 10, 4>>, weekDayOf(<<2025, 10, 4>>), 11200, Frac(-31, 100), Frac(-35, 100), Frac(-6, 100)),
    Entry(<<2025, 10, 11>>, weekDayOf(<<2025, 10, 11>>), 10930, Frac(-241, 100), Frac(-270, 100), Frac(-39, 100)),
    Entry(<<2025, 10, 18>>, weekDayOf(<<2025, 10, 18>>), 10845, Frac(-78, 100), Frac(-85, 100), Frac(-12, 100)),
    Entry(<<2025, 10, 25>>, weekDayOf(<<2025, 10, 25>>), 10585, Frac(-240, 100), Frac(-260, 100), Frac(-37, 100)),
    Entry(<<2025, 11, 1>>, weekDayOf(<<2025, 11, 1>>), 10445, Frac(-132, 100), Frac(-140, 100), Frac(-20, 100)),
    Entry(<<2025, 11, 8>>, weekDayOf(<<2025, 11, 8>>), 10400, Frac(-43, 100), Frac(-45, 100), Frac(-6, 100)),
    Entry(<<2025, 11, 15>>, weekDayOf(<<2025, 11, 15>>), 10280, Frac(-115, 100), Frac(-120, 100), Frac(-17, 100)),
    Entry(<<2025, 11, 19>>, weekDayOf(<<2025, 11, 19>>), 10200, Frac(-78, 100), Frac(-80, 100), Frac(-20, 100)),
    Entry(<<2025, 11, 22>>, weekDayOf(<<2025, 11, 22>>), 10185, Frac(-15, 100), Frac(-15, 100), Frac(-5, 100)),
    Entry(<<2025, 11, 24>>, weekDayOf(<<2025, 11, 24>>), 10170, Frac(-15, 100), Frac(-15, 100), Frac(-7, 100)),
    Entry(<<2025, 11, 27>>, weekDayOf(<<2025, 11, 27>>), 10100, Frac(-69, 100), Frac(-70, 100), Frac(-23, 100)),
    Entry(<<2025, 11, 29>>, weekDayOf(<<2025, 11, 29>>), 10030, Frac(-69, 100), Frac(-70, 100), Frac(-35, 100)),
    Entry(<<2025, 12, 3>>, weekDayOf(<<2025, 12, 3>>), 9970, Frac(-60, 100), Frac(-60, 100), Frac(-15, 100)),
    Entry(<<2025, 12, 6>>, weekDayOf(<<2025, 12, 6>>), 9890, Frac(-80, 100), Frac(-80, 100), Frac(-27, 100)),
    Entry(<<2025, 12, 13>>, weekDayOf(<<2025, 12, 13>>), 9790, Frac(-101, 100), Frac(-100, 100), Frac(-14, 100)),
    Entry(<<2025, 12, 17>>, weekDayOf(<<2025, 12, 17>>), 9755, Frac(-36, 100), Frac(-35, 100), Frac(-9, 100)),
    Entry(<<2025, 12, 20>>, weekDayOf(<<2025, 12, 20>>), 9710, Frac(-46, 100), Frac(-45, 100), Frac(-15, 100)),
    Entry(<<2025, 12, 22>>, weekDayOf(<<2025, 12, 22>>), 9655, Frac(-57, 100), Frac(-55, 100), Frac(-27, 100)),
    Entry(<<2025, 12, 27>>, weekDayOf(<<2025, 12, 27>>), 9665, Frac(10, 100), Frac(10, 100), Frac(2, 100)) >>

\* the seed: the first SeedLen rows of the table
mockWeightData == SubSeq(mockWeightDataFull, 1, Min(SeedLen, Len(mockWeightDataFull)))

mockTargetData ==
    [startDate |-> <<2025, 9, 28>>, startWeight |-> 11235,
     endDate |-> <<2026, 7, 31>>, endWeight |-> 7500,
     totalDuration |-> 307, totalKg |-> 3735, height |-> 1700]

-----------------------------------------------------------------------------
(* services/dataService.ts *)

\* One weightwatch localStorage slot: absent, unparseable text, or JSON text
Absent == [state |-> "absent", val |-> <<>>]

Corrupt == [state |-> "corrupt", val |-> <<>>]

Json(v) == [state |-> "json", val |-> <<v>>]

\* a variant that takes the percentage of the entry's own weight
calculateDerivedFieldsOwnWeight(entry, previousEntry) ==
    IF previousEntry = <<>>
    THEN [entry EXCEPT !.changePercent = Zero, !.changeKg = Zero, !.dailyChange = Zero]
    ELSE LET prev == previousEntry[1]
             changeKg == entry.weight - prev.weight
             days == Max(1, DayNumber(entry.date) - DayNumber(prev.date))
         IN  [entry EXCEPT
                !.changePercent = Frac(changeKg * 100, entry.weight),
                !.changeKg = Frac(changeKg, 100),
                !.dailyChange = Frac(changeKg, 100 * days)]

calculateDerivedFields(entry, previousEntry) ==
    IF previousEntry = <<>>
    THEN [entry EXCEPT !.changePercent = Zero, !.changeKg = Zero, !.dailyChange = Zero]
    ELSE LET prev == previousEntry[1]
             changeKg == entry.weight - prev.weight
             diff == TimeDiff(getTime(entry.date), getTime(prev.date))
             \* Math.max(1, NaN) is NaN and x / NaN is NaN; <<>> is NaN
             daysDiff == IF diff = <<>> THEN <<>> ELSE <<Max(1, FloorDiv(diff[1], 1))>>
         IN  [entry EXCEPT
                !.changePercent = Frac(changeKg * 100, prev.weight),
                !.changeKg = Frac(changeKg, 100),
                !.dailyChange = IF daysDiff = <<>> THEN <<>>
                                ELSE Frac(changeKg, 100 * daysDiff[1])]

\* the comparator of the sort: a NaN result counts as 0
compareDates(a, b) ==
    LET diff == TimeDiff(getTime(a.date), getTime(b.date))
    IN  IF diff = <<>> THEN 0 ELSE diff[1]

\* e placed into the sorted sequence s after every element it does not
\* precede (Array.prototype.sort is stable)
RECURSIVE InsertSorted(_, _)
InsertSorted(s, e) ==
    IF s = <<>> THEN <<e>>
    ELSE IF compareDates(e, s[Len(s)]) >= 0 THEN Append(s, e)
    ELSE Append(InsertSorted(SubSeq(s, 1, Len(s) - 1), e), s[Len(s)])

\* a variant that keeps the order it is given
SortByDateSkipped(s) == s

RECURSIVE SortByDate(_)
SortByDate(s) ==
    IF s = <<>> THEN <<>>
    ELSE InsertSorted(SortByDate(SubSeq(s, 1, Len(s) - 1)), s[Len(s)])

\* sorted.map((entry, index) => calculateDerivedFields(entry, previous))
mapDerivedFields(sorted) ==
    [index \in 1..Len(sorted) |->
        calculateDerivedFields(sorted[index],
            IF index > 1 THEN <<sorted[index - 1]>> ELSE <<>>)]

recalculateEntries(es) == mapDerivedFields(SortByDate(es))

\* a variant that returns the seed whatever is stored
getStoredEntriesSeed(slot) ==
    [value |-> mockWeightData, slot |-> IF slot.state = "absent" THEN Json(mockWeightData) ELSE slot]

\* getStoredEntries: the value it returns and the slot after the call
getStoredEntries(slot) ==
    IF slot.state = "json" THEN [value |-> slot.val[1], slot |-> slot]
    ELSE IF slot.state = "corrupt" THEN [value |-> mockWeightData, slot |-> slot]
    ELSE [value |-> mockWeightData, slot |-> Json(mockWeightData)]

getStoredTargetData(slot) ==
    IF slot.state = "json" THEN [value |-> slot.val[1], slot |-> slot]
    ELSE IF slot.state = "corrupt" THEN [value |-> mockTargetData, slot |-> slot]
    ELSE [value |-> mockTargetData, slot |-> Json(mockTargetData)]

\* e => e.date === date
findIndex(es, date) ==
    LET hits == {i \in 1..Len(es) : es[i].date = date}
    IN  IF hits = {} THEN -1 ELSE CHOOSE i \in hits : \A j \in hits : i <= j

\* a variant without the check for an existing date
addWeightEntryUnchecked(slot, entry) ==
    LET stored == getStoredEntries(slot)
        newEntry == Entry(entry.date, entry.weekDay, entry.weight, Zero, Zero, Zero)
        updatedEntries == recalculateEntries(Append(stored.value, newEntry))
    IN  [outcome |-> "ok", value |-> updatedEntries, slot |-> Json(updatedEntries)]

\* addWeightEntry: outcome, returned collection and the slot after the call
addWeightEntry(slot, entry) ==
    LET stored == getStoredEntries(slot)
        existingIndex == findIndex(stored.value, entry.date)
        newEntry == Entry(entry.date, entry.weekDay, entry.weight, Zero, Zero, Zero)
        updatedEntries == recalculateEntries(Append(stored.value, newEntry))
    IN  IF existingIndex # -1
        THEN [outcome |-> "duplicate", value |-> <<>>, slot |-> stored.slot]
        ELSE [outcome |-> "ok", value |-> updatedEntries, slot |-> Json(updatedEntries)]

\* a variant that saves the collection as it is before recalculateEntries
updateWeightEntrySaveMerged(slot, date, updates) ==
    LET stored == getStoredEntries(slot)
        index == findIndex(stored.value, date)
        merged == [stored.value[index] EXCEPT !.date = updates.date,
                                              !.weekDay = updates.weekDay,
                                              !.weight = updates.weight]
        updatedEntries == recalculateEntries([stored.value EXCEPT ![index] = merged])
    IN  IF index = -1
        THEN [outcome |-> "notFound", value |-> <<>>, slot |-> stored.slot]
        ELSE [outcome |-> "ok", value |-> updatedEntries,
              slot |-> Json([stored.value EXCEPT ![index] = merged])]

\* updateWeightEntry; updates carries date, weekDay and weight
updateWeightEntry(slot, date, updates) ==
    LET stored == getStoredEntries(slot)
        index == findIndex(stored.value, date)
        merged == [stored.value[index] EXCEPT !.date = updates.date,
                                              !.weekDay = updates.weekDay,
                                              !.weight = updates.weight]
        updatedEntries == recalculateEntries([stored.value EXCEPT ![index] = merged])
    IN  IF index = -1
        THEN [outcome |-> "notFound", value |-> <<>>, slot |-> stored.slot]
        ELSE [outcome |-> "ok", value |-> updatedEntries, slot |-> Json(updatedEntries)]

\* a variant that saves the recalculated collection before the check
deleteWeightEntrySaveFirst(slot, date) ==
    LET stored == getStoredEntries(slot)
        filtered == SelectSeq(stored.value, LAMBDA e : e.date # date)
        updatedEntries == recalculateEntries(filtered)
    IN  IF Len(filtered) = Len(stored.value)
        THEN [outcome |-> "notFound", value |-> <<>>, slot |-> Json(updatedEntries)]
        ELSE [outcome |-> "ok", value |-> updatedEntries, slot |-> Json(updatedEntries)]

deleteWeightEntry(slot, date) ==
    LET stored == getStoredEntries(slot)
        filtered == SelectSeq(stored.value, LAMBDA e : e.date # date)
        updatedEntries == recalculateEntries(filtered)
    IN  IF Len(filtered) = Len(stored.value)
        THEN [outcome |-> "notFound", value |-> <<>>, slot |-> stored.slot]
        ELSE [outcome |-> "ok", value |-> updatedEntries, slot |-> Json(updatedEntries)]

-----------------------------------------------------------------------------
(* components/WeightEntryForm.tsx *)

\* parseFloat(weight) of the weight field: NaN or hundredths of a kg
NaNWeight == [nan |-> TRUE, v |-> 0]

Weight(v) == [nan |-> FALSE, v |-> v]

\* validate(): the date is not after today, the weight is a number in [40, 200]
validate(date, weight) ==
    /\ ~DateGreater(getTime(date), getTime(Today))
    /\ ~weight.nan
    /\ ~(weight.v < 4000 \/ weight.v > 20000)

\* what handleSubmit passes to onSubmit
submitted(date, weight) ==
    [date |-> date, weight |-> weight.v, weekDay |-> weekDayOf(date)]

-----------------------------------------------------------------------------
(* Values of a parsed JSON document.  A string is a sequence of tokens; a   *)
(* token is one of the characters <, >, ', " and space, or a run of other   *)
(* characters.                                                              *)

Undefined == [type |-> "undefined", str |-> <<>>, num |-> Zero, bool |-> FALSE]

Str(s) == [type |-> "string", str |-> s, num |-> Zero, bool |-> FALSE]

Num(x) == [type |-> "number", str |-> <<>>, num |-> x, bool |-> FALSE]

Bool(b) == [type |-> "boolean", str |-> <<>>, num |-> Zero, bool |-> b]

\* a date field: a string of the shape dddd-dd-dd with its digit groups,
\* a string of another shape, or no string
DateText(ymd) == [type |-> "string", shaped |-> TRUE, ymd |-> ymd]

OtherText == [type |-> "string", shaped |-> FALSE, ymd |-> <<0, 0, 0>>]

NoText == [type |-> "undefined", shaped |-> FALSE, ymd |-> <<0, 0, 0>>]

\* x < k and x > k for a fraction x and an integer k
LessThan(x, k) == x[1] < k * x[2]

GreaterThan(x, k) == x[1] > k * x[2]

\* Math.round(x * 100) / 100 as a fraction
round2(x) == Frac(RoundHundredths(x), 100)

-----------------------------------------------------------------------------
(* components/DataBackup.tsx: validation *)

MAX_BACKUP_ENTRIES == 10000

MAX_STRING_LENGTH == 1000

\* value.replace(/<[^>]*>/g, ''): from each < up to the next >
RECURSIVE stripTags(_)
stripTags(s) ==
    IF s = <<>> THEN <<>>
    ELSE IF s[1] = "<" /\ (\E j \in 2..Len(s) : s[j] = ">")
    THEN LET close == CHOOSE j \in 2..Len(s) :
                          s[j] = ">" /\ \A k \in 2..(j - 1) : s[k] # ">"
         IN  stripTags(SubSeq(s, close + 1, Len(s)))
    ELSE <<s[1]>> \o stripTags(Tail(s))

\* .replace(/[<>'"]/g, '')
stripDangerous(s) == SelectSeq(s, LAMBDA c : c \notin {"<", ">", "'", "\""})

RECURSIVE trimStart(_)
trimStart(s) == IF s # <<>> /\ s[1] = " " THEN trimStart(Tail(s)) ELSE s

RECURSIVE trimEnd(_)
trimEnd(s) ==
    IF s # <<>> /\ s[Len(s)] = " " THEN trimEnd(SubSeq(s, 1, Len(s) - 1)) ELSE s

trim(s) == trimEnd(trimStart(s))

\* s.length: the characters of all tokens
RECURSIVE length(_)
length(s) == IF s = <<>> THEN 0 ELSE Len(s[1]) + length(Tail(s))

\* s.slice(0, n): the token that crosses position n is cut
RECURSIVE slice(_, _)
slice(s, n) ==
    IF s = <<>> \/ n = 0 THEN <<>>
    ELSE IF Len(s[1]) <= n THEN <<s[1]>> \o slice(Tail(s), n - Len(s[1]))
    ELSE <<SubSeq(s[1], 1, n)>>

\* a variant that leaves out the second replace
sanitizeStringTagsOnly(value) ==
    IF value.type # "string" THEN <<>>
    ELSE slice(trim(stripTags(value.str)), MAX_STRING_LENGTH)

sanitizeString(value) ==
    IF value.type # "string" THEN <<>>
    ELSE slice(trim(stripDangerous(stripTags(value.str))), MAX_STRING_LENGTH)

\* validateWeightEntry: <<>> is null
validateWeightEntry(entry) ==
    IF ~entry.isObject THEN <<>>
    ELSE IF entry.date.type # "string" \/ ~entry.date.shaped THEN <<>>
    ELSE IF \/ entry.weight.type # "number"
            \/ LessThan(entry.weight.num, 20)
            \/ GreaterThan(entry.weight.num, 500) THEN <<>>
    ELSE LET date == getTime(entry.date.ymd)
             minDate == getTime(<<2000, 1, 1>>)
             maxDate == getTime(<<Today[1] + 1, Today[2], Today[3]>>)
             weekDay == sanitizeString(entry.weekDay)
             rounded(v) == IF v.type = "number" THEN round2(v.num) ELSE Zero
         IN  IF DateLess(date, minDate) \/ DateGreater(date, maxDate) THEN <<>>
             ELSE <<Entry(entry.date.ymd,
                          IF weekDay = <<>> THEN <<"Unknown">> ELSE weekDay,
                          RoundHundredths(entry.weight.num),
                          rounded(entry.changePercent),
                          rounded(entry.changeKg),
                          rounded(entry.dailyChange))>>

\* validateTargetData: <<>> is null
validateTargetData(target) ==
    LET badDate(v) == v.type # "string" \/ ~v.shaped
        badNumber(v, lo, hi) ==
            v.type # "number" \/ LessThan(v.num, lo) \/ GreaterThan(v.num, hi)
    IN  IF target.kind # "object" THEN <<>>
        ELSE IF badDate(target.startDate) \/ badDate(target.endDate) THEN <<>>
        ELSE IF badNumber(target.startWeight, 20, 500) THEN <<>>
        ELSE IF badNumber(target.endWeight, 20, 500) THEN <<>>
        ELSE IF badNumber(target.height, 50, 300) THEN <<>>
        ELSE <<[startDate |-> target.startDate.ymd,
                endDate |-> target.endDate.ymd,
                startWeight |-> RoundHundredths(target.startWeight.num),
                endWeight |-> RoundHundredths(target.endWeight.num),
                totalDuration |->
                    IF target.totalDuration.type = "number"
                    THEN Max(0, RoundHundredths(Frac(target.totalDuration.num[1],
                                                     100 * target.totalDuration.num[2])))
                    ELSE 0,
                totalKg |->
                    IF target.totalKg.type = "number"
                    THEN RoundHundredths(target.totalKg.num) ELSE 0,
                \* Math.round(height * 10) / 10, in tenths
                height |-> RoundHundredths(Frac(target.height.num[1],
                                                10 * target.height.num[2]))]>>

\* validateAchievement: <<>> is null
validateAchievement(a) ==
    IF ~a.isObject THEN <<>>
    ELSE IF a.id.type # "string" \/ length(a.id.str) = 0 \/ length(a.id.str) > 50 THEN <<>>
    ELSE IF a.name.type # "string" THEN <<>>
    ELSE IF a.description.type # "string" THEN <<>>
    ELSE IF a.icon.type # "string" THEN <<>>
    ELSE IF ~(a.category.type = "string" /\ a.category.str \in
                {<<"milestone">>, <<"consistency">>, <<"progress">>, <<"special">>})
         THEN <<>>
    ELSE IF a.unlocked.type # "boolean" THEN <<>>
    ELSE <<[id |-> sanitizeString(a.id),
            name |-> sanitizeString(a.name),
            description |-> sanitizeString(a.description),
            icon |-> sanitizeString(a.icon),
            category |-> a.category.str,
            unlocked |-> a.unlocked.bool,
            unlockedAt |-> IF a.unlockedAt.type = "string"
                           THEN <<sanitizeString(a.unlockedAt)>> ELSE <<>>]>>

Err(kind, index) == [kind |-> kind, index |-> index]

\* d.version.match(/^\d+\.\d+\.\d+$/): the tokens of a version string are
\* its parts between the dots
DigitGroups == {"0", "1", "2", "10"}

matchesVersion(str) == Len(str) = 3 /\ \A i \in 1..3 : str[i] \in DigitGroups

\* an array given by its first elements and a count of further elements,
\* each equal to fill
ArrayLength(a) == Len(a.items) + a.more

Elements(a) == a.items \o [i \in 1..a.more |-> a.fill]

\* a variant that reports the position counted from 1
validateEntriesFromOne(items, n) ==
    LET checked == [i \in 1..n |->
                       [index |-> i, validEntry |-> validateWeightEntry(items[i])]]
        valid == SelectSeq(checked, LAMBDA c : c.validEntry # <<>>)
        invalid == SelectSeq(checked, LAMBDA c : c.validEntry = <<>>)
    IN  [entries |-> [k \in 1..Len(valid) |-> valid[k].validEntry[1]],
         errors |-> [k \in 1..Len(invalid) |-> Err("entry", invalid[k].index)]]

\* the loop over d.entries: the validated entries and the errors it pushes,
\* each in the order of the elements they come from
validateEntries(items, n) ==
    LET checked == [i \in 1..n |->
                       [index |-> i - 1, validEntry |-> validateWeightEntry(items[i])]]
        valid == SelectSeq(checked, LAMBDA c : c.validEntry # <<>>)
        invalid == SelectSeq(checked, LAMBDA c : c.validEntry = <<>>)
    IN  [entries |-> [k \in 1..Len(valid) |-> valid[k].validEntry[1]],
         errors |-> [k \in 1..Len(invalid) |-> Err("entry", invalid[k].index)]]

RECURSIVE validateAchievements(_)
validateAchievements(items) ==
    IF items = <<>> THEN <<>>
    ELSE LET valid == validateAchievement(items[1])
         IN  valid \o validateAchievements(Tail(items))

\* a variant that takes over every string it finds
validateSettingsAnyString(settings) ==
    IF ~settings.isObject THEN [theme |-> <<>>, timelineView |-> <<>>, reminder |-> <<>>]
    ELSE [theme |->
            IF settings.theme.type = "string" THEN <<settings.theme.str>> ELSE <<>>,
          timelineView |->
            IF settings.timelineView.type = "string"
            THEN <<settings.timelineView.str>> ELSE <<>>,
          reminder |->
            IF settings.reminder.type = "string"
            THEN <<sanitizeString(settings.reminder)>> ELSE <<>>]

\* the settings block: each key is <<>> when it is not set
validateSettings(settings) ==
    IF ~settings.isObject THEN [theme |-> <<>>, timelineView |-> <<>>, reminder |-> <<>>]
    ELSE [theme |->
            IF settings.theme.type = "string"
               /\ settings.theme.str \in {<<"light">>, <<"dark">>}
            THEN <<settings.theme.str>> ELSE <<>>,
          timelineView |->
            IF settings.timelineView.type = "string"
               /\ settings.timelineView.str \in {<<"daily">>, <<"weekly">>, <<"monthly">>}
            THEN <<settings.timelineView.str>> ELSE <<>>,
          reminder |->
            IF settings.reminder.type = "string"
            THEN <<sanitizeString(settings.reminder)>> ELSE <<>>]

Invalid(errors) == [isValid |-> FALSE, errors |-> errors, data |-> <<>>]

\* a variant that turns away an array of exactly the limit
tooManyEntriesFromLimit(sourceLength) == sourceLength >= MAX_BACKUP_ENTRIES

\* d.entries.length > 10000
tooManyEntries(sourceLength) == sourceLength > MAX_BACKUP_ENTRIES

\* a variant that does not look at the length of the source array
noValidEntriesAnyLength(validatedEntries, sourceLength) == validatedEntries = <<>>

\* validatedEntries.length === 0 && d.entries.length > 0
noValidEntries(validatedEntries, sourceLength) ==
    validatedEntries = <<>> /\ sourceLength > 0

\* validateBackupData: isValid, errors and data (<<>> when there is none)
validateBackupData(d) ==
    IF ~d.isObject THEN Invalid(<<Err("notObject", -1)>>)
    ELSE IF ~d.entries.isArray THEN Invalid(<<Err("notArray", -1)>>)
    ELSE IF tooManyEntries(ArrayLength(d.entries)) THEN Invalid(<<Err("tooMany", -1)>>)
    ELSE
      LET versionErrors ==
              IF d.version.type # "string" \/ ~matchesVersion(d.version.str)
              THEN <<Err("version", -1)>> ELSE <<>>
          exportDateErrors ==
              IF d.exportDate.type # "string" THEN <<Err("exportDate", -1)>> ELSE <<>>
          validated == validateEntries(Elements(d.entries), ArrayLength(d.entries))
          validatedTarget ==
              IF d.targetData.kind # "null" THEN validateTargetData(d.targetData) ELSE <<>>
          targetErrors ==
              IF d.targetData.kind # "null" /\ validatedTarget = <<>>
              THEN <<Err("target", -1)>> ELSE <<>>
          errors == versionErrors \o exportDateErrors \o validated.errors \o targetErrors
      IN  IF noValidEntries(validated.entries, ArrayLength(d.entries))
          THEN Invalid(<<Err("noValid", -1)>>)
          ELSE [isValid |-> errors = <<>> \/ validated.entries # <<>>,
                errors |-> errors,
                data |-> <<[version |-> IF d.version.type = "string"
                                        THEN d.version.str ELSE <<"1", "0", "0">>,
                            entries |-> validated.entries,
                            targetData |-> validatedTarget,
                            achievements |->
                                IF d.achievements.isArray
                                THEN validateAchievements(d.achievements.items)
                                ELSE <<>>,
                            settings |-> validateSettings(d.settings)]>>]

-----------------------------------------------------------------------------
(* The components beside the entry store, as they are constructed *)

\* a promise: pending, fulfilled with a value, or rejected
Pending == [state |-> "pending", value |-> <<>>]

Fulfilled(v) == [state |-> "fulfilled", value |-> <<v>>]

Rejected == [state |-> "rejected", value |-> <<>>]

\* GoogleSheetsService's fields and the Settings state
InitSheets ==
    /\ tokenClient = FALSE
    /\ callback = <<>>
    /\ requests = 0
    /\ token = <<>>
    /\ tokenRefreshTimer = <<>>
    /\ intervals = {}
    /\ isSignedIn = FALSE
    /\ signInPending = FALSE
    /\ syncStatus = "idle"
    /\ lastSyncTime = <<>>
    /\ syncs = <<>>

\* a variant that never finds the flag
onboardingCompletedNever(slot) == FALSE

\* localStorage.getItem('weightwatch-onboarding-completed') is truthy
onboardingCompleted(slot) == slot.state # "absent"

\* the App's mount effect on a first visit; the modal is not rendered yet
InitOnboarding ==
    /\ lsOnboarding = [state |-> "absent", val |-> <<>>]
    /\ showOnboarding = TRUE
    /\ isVisible = FALSE
    /\ currentStep = 0

DismissalDays == 7

\* the effect's check: the days since the stored dismissal, 0 standing in
\* for a missing key
dismissedRecently(slot, time) ==
    LET dismissedTime == IF slot.state = "absent" THEN 0 ELSE slot.val[1]
    IN  time - dismissedTime < DismissalDays

\* PWAInstallPrompt before its mount effect, on a first visit in a browser tab
InitInstall ==
    /\ lsDismissed = [state |-> "absent", val |-> <<>>]
    /\ now = DayNumber(Today)
    /\ listening = FALSE
    /\ deferredPrompt = FALSE
    /\ showPrompt = FALSE
    /\ isInstalled = FALSE
    /\ showTimers = 0

\* a fetch handler slot with nothing running
Idle == [phase |-> "idle"]

\* the service worker after install and activate
InitWorker ==
    /\ dynamicCache = 0
    /\ handlers = [h \in 1..MaxHandlers |-> Idle]

InitComponents ==
    /\ InitSheets
    /\ InitOnboarding
    /\ InitInstall
    /\ InitWorker
    /\ adds = <<>>

\* the page is loaded again: the service and the component states are built
\* anew and the App's mount effect runs, storage stays
mountComponents ==
    /\ tokenClient' = FALSE
    /\ callback' = <<>>
    /\ requests' = 0
    /\ token' = <<>>
    /\ tokenRefreshTimer' = <<>>
    /\ intervals' = {}
    /\ isSignedIn' = FALSE
    /\ signInPending' = FALSE
    /\ syncStatus' = "idle"
    /\ lastSyncTime' = <<>>
    /\ syncs' = <<>>
    /\ showOnboarding' = ~onboardingCompleted(lsOnboarding)
    /\ isVisible' = FALSE
    /\ currentStep' = 0
    /\ listening' = FALSE
    /\ deferredPrompt' = FALSE
    /\ showPrompt' = FALSE
    /\ isInstalled' = FALSE
    /\ showTimers' = 0
    /\ adds' = <<>>
    /\ UNCHANGED <<lsOnboarding, lsDismissed, now, workerVars>>

\* the dashboard is rendered after the loading screen: the components in it
\* are mounted and their mount effects run
mountDashboard ==
    /\ isVisible' = (showOnboarding /\ ~onboardingCompleted(lsOnboarding))
    /\ currentStep' = 0
    /\ listening' = ~dismissedRecently(lsDismissed, now)
    /\ deferredPrompt' = FALSE
    /\ showPrompt' = FALSE
    /\ isInstalled' = FALSE
    /\ showTimers' = 0
    /\ UNCHANGED <<authVars, syncVars, lsOnboarding, showOnboarding, lsDismissed, now,
                   workerVars, adds>>

-----------------------------------------------------------------------------
(* App *)

NoDate == <<>>

\* detail: the errors a restore reported
Op(name, date, outcome) ==
    [name |-> name, date |-> date, outcome |-> outcome, detail |-> <<>>]

\* stats is non-null and the dashboard with the entry modal is rendered
Dashboard == ~loading /\ entries # <<>> /\ targetData # <<>>

\* loadData, called by the mount effect
LoadData ==
    /\ loading
    /\ LET e == getStoredEntries(lsEntries)
           t == getStoredTargetData(lsTarget)
       IN  /\ lsEntries' = e.slot
           /\ lsTarget' = t.slot
           /\ entries' = e.value
           /\ targetData' = <<t.value>>
    /\ loading' = FALSE
    /\ op' = Op("load", NoDate, "ok")
    /\ mountDashboard
    /\ UNCHANGED <<lsAchievements, lsTheme, lsTimelineView, lsReminder, reloadTimer, codecVars>>

\* the form rejects the input: nothing reaches the App
SubmitInvalid(date, weight) ==
    /\ Dashboard
    /\ ~validate(date, weight)
    /\ op' = Op("submit", <<date>>, "invalid")
    /\ UNCHANGED <<lsVars, loading, entries, targetData, reloadTimer, codecVars, componentVars>>

\* handleSubmitEntry with editingEntry = null
AddEntry(date, weight) ==
    /\ Dashboard
    /\ validate(date, weight)
    /\ Len(getStoredEntries(lsEntries).value) < MaxEntries
    /\ \E r \in {addWeightEntry(lsEntries, submitted(date, weight))} :
           /\ lsEntries' = r.slot
           /\ entries' = IF r.outcome = "ok" THEN r.value ELSE entries
           /\ op' = Op("add", <<date>>, r.outcome)
    /\ UNCHANGED <<lsTarget, lsAchievements, lsTheme, lsTimelineView, lsReminder,
                   loading, targetData, reloadTimer, codecVars, componentVars>>

\* handleSubmitEntry with editingEntry.date = editing
UpdateEntry(editing, date, weight) ==
    /\ Dashboard
    /\ validate(date, weight)
    /\ \E r \in {updateWeightEntry(lsEntries, editing, submitted(date, weight))} :
           /\ lsEntries' = r.slot
           /\ entries' = IF r.outcome = "ok" THEN r.value ELSE entries
           /\ op' = Op("update", <<editing>>, r.outcome)
    /\ UNCHANGED <<lsTarget, lsAchievements, lsTheme, lsTimelineView, lsReminder,
                   loading, targetData, reloadTimer, codecVars, componentVars>>

\* handleDeleteEntry
DeleteEntry(date) ==
    /\ Dashboard
    /\ \E r \in {deleteWeightEntry(lsEntries, date)} :
           /\ lsEntries' = r.slot
           /\ entries' = IF r.outcome = "ok" THEN r.value ELSE entries
           /\ op' = Op("delete", <<date>>, r.outcome)
    /\ UNCHANGED <<lsTarget, lsAchievements, lsTheme, lsTimelineView, lsReminder,
                   loading, targetData, reloadTimer, codecVars, componentVars>>

\* window.location.reload(): the App state is rebuilt, storage stays
reload ==
    /\ loading' = TRUE
    /\ entries' = <<>>
    /\ targetData' = <<>>
    /\ reloadTimer' = FALSE
    /\ op' = Op("reload", NoDate, "ok")
    /\ mountComponents
    /\ UNCHANGED <<lsVars, codecVars>>

\* the user reloads the page
Reload == ~loading /\ reload

\* the timer restoreBackup set fires
ReloadTimerFires == reloadTimer /\ reload

\* a variant that hands the data on before it looks at isValid
restoreBackupBeforeCheck(content) ==
    IF ~content.parsed
    THEN [outcome |-> "failed", detail |-> <<Err("json", -1)>>, restored |-> <<>>]
    ELSE LET v == validateBackupData(content.data)
         IN  IF ~v.isValid \/ v.data = <<>>
             THEN [outcome |-> "failed", detail |-> v.errors, restored |-> v.data]
             ELSE [outcome |-> IF v.errors # <<>> THEN "warnings" ELSE "ok",
                   detail |-> v.errors, restored |-> v.data]

\* restoreBackup, reader.onload: outcome, reported errors and the data handed
\* on to be restored (<<>> when the handler throws)
restoreBackup(content) ==
    IF ~content.parsed
    THEN [outcome |-> "failed", detail |-> <<Err("json", -1)>>, restored |-> <<>>]
    ELSE LET v == validateBackupData(content.data)
         IN  IF ~v.isValid \/ v.data = <<>>
             THEN [outcome |-> "failed", detail |-> v.errors, restored |-> <<>>]
             ELSE [outcome |-> IF v.errors # <<>> THEN "warnings" ELSE "ok",
                   detail |-> v.errors, restored |-> v.data]

\* the file input's change handler with its reader.onload; onRestore is
\* the App's onDataRestore
RestoreBackup(content) ==
    /\ Dashboard
    /\ \E r \in {restoreBackup(content)} :
        /\ op' = [Op("restore", NoDate, r.outcome) EXCEPT !.detail = r.detail]
        /\ IF r.restored = <<>>
           THEN UNCHANGED <<lsAchievements, lsTheme, lsTimelineView, lsReminder,
                            entries, targetData, reloadTimer>>
           ELSE LET backupData == r.restored[1]
                IN  /\ entries' = backupData.entries
                    /\ targetData' = backupData.targetData
                    /\ lsAchievements' = IF Len(backupData.achievements) > 0
                                         THEN Json(backupData.achievements)
                                         ELSE lsAchievements
                    /\ lsTheme' = IF backupData.settings.theme # <<>>
                                  THEN Json(backupData.settings.theme[1])
                                  ELSE lsTheme
                    /\ lsTimelineView' = IF backupData.settings.timelineView # <<>>
                                         THEN Json(backupData.settings.timelineView[1])
                                         ELSE lsTimelineView
                    /\ lsReminder' = IF /\ backupData.settings.reminder # <<>>
                                        /\ backupData.settings.reminder[1] # <<>>
                                     THEN Json(backupData.settings.reminder[1])
                                     ELSE lsReminder
                    /\ reloadTimer' = TRUE
    /\ UNCHANGED <<lsEntries, lsTarget, loading, codecVars, componentVars>>

\* TimelineChart: the effect that saves the view mode
SaveViewMode(viewMode) ==
    /\ Dashboard
    /\ lsTimelineView' = Json(<<viewMode>>)
    /\ op' = Op("viewMode", NoDate, "ok")
    /\ UNCHANGED <<lsEntries, lsTarget, lsAchievements, lsTheme, lsReminder,
                   loading, entries, targetData, reloadTimer, codecVars, componentVars>>

\* JSON.stringify(settings) of the reminder settings, in tokens
stringifyReminderSettings(settings) ==
    <<"{", "\"", "enabled", "\"", IF settings.enabled THEN ":true," ELSE ":false,",
      "\"", "time", "\"", ":", "\"", settings.time, "\"", ",",
      "\"", "skipWeekends", "\"", IF settings.skipWeekends THEN ":true}" ELSE ":false}">>

\* DailyReminder: the effect that saves the settings
SaveReminderSettings(settings) ==
    /\ Dashboard
    /\ lsReminder' = Json(stringifyReminderSettings(settings))
    /\ op' = Op("reminder", NoDate, "ok")
    /\ UNCHANGED <<lsEntries, lsTarget, lsAchievements, lsTheme, lsTimelineView,
                   loading, entries, targetData, reloadTimer, codecVars, componentVars>>

\* localStorage.getItem(key) || undefined
getItemOrUndefined(slot) ==
    IF slot.state = "json" /\ slot.val[1] # <<>> THEN Str(slot.val[1]) ELSE Undefined

\* an entry, the goal and an achievement as JSON.stringify writes them and
\* JSON.parse reads them back
stringifyEntry(e) ==
    [isObject |-> TRUE, date |-> DateText(e.date), weight |-> Num(Frac(e.weight, 100)),
     weekDay |-> Str(e.weekDay), changePercent |-> Num(e.changePercent),
     changeKg |-> Num(e.changeKg), dailyChange |-> Num(e.dailyChange)]

stringifyTargetData(t) ==
    [kind |-> "object",
     startDate |-> DateText(t.startDate), endDate |-> DateText(t.endDate),
     startWeight |-> Num(Frac(t.startWeight, 100)), endWeight |-> Num(Frac(t.endWeight, 100)),
     height |-> Num(Frac(t.height, 10)),
     totalDuration |-> Num(Frac(t.totalDuration, 1)), totalKg |-> Num(Frac(t.totalKg, 100))]

stringifyAchievement(a) ==
    [isObject |-> TRUE, id |-> Str(a.id), name |-> Str(a.name),
     description |-> Str(a.description), icon |-> Str(a.icon),
     category |-> Str(a.category), unlocked |-> Bool(a.unlocked),
     unlockedAt |-> IF a.unlockedAt = <<>> THEN Undefined ELSE Str(a.unlockedAt[1])]

\* validateBackupData applied to a document
ValidateDocument ==
    /\ validation = <<>>
    /\ validation' = <<validateBackupData(document)>>
    /\ UNCHANGED <<lsVars, loading, entries, targetData, reloadTimer, op, document,
                   componentVars>>

-----------------------------------------------------------------------------
(* The entry store driven by the App *)

\* dates the date field is set to: before the seed, between its rows, a
\* seed date, and a date after today
FormDates == {<<2025, 9, 27>>, <<2025, 10, 8>>, <<2025, 10, 11>>, <<2027, 1, 1>>}

\* values of the weight field: not a number, below the range, in the range
FormWeights == {NaNWeight, Weight(3990), Weight(8000), Weight(11000)}

\* dates an edited or deleted entry can carry
EditDates == FormDates \cup {mockWeightDataFull[1].date}

NoDocument == <<>>

Init ==
    /\ lsEntries \in {Absent, Corrupt}
    /\ lsTarget \in {Absent, Corrupt}
    /\ lsAchievements = Absent
    /\ lsTheme = Absent
    /\ lsTimelineView = Absent
    /\ lsReminder = Absent
    /\ loading = TRUE
    /\ entries = <<>>
    /\ targetData = <<>>
    /\ reloadTimer = FALSE
    /\ op = Op("init", NoDate, "ok")
    /\ document = NoDocument
    /\ validation = <<>>
    /\ InitComponents

Next ==
    \/ LoadData
    \/ \E d \in FormDates, w \in FormWeights : SubmitInvalid(d, w)
    \/ \E d \in FormDates, w \in FormWeights : AddEntry(d, w)
    \/ \E e \in EditDates, d \in FormDates, w \in FormWeights : UpdateEntry(e, d, w)
    \/ \E d \in EditDates : DeleteEntry(d)
    \/ Reload

Spec == Init /\ [][Next]_vars

-----------------------------------------------------------------------------
(* Backup documents *)

RawEntry(date, weight, weekDay, derived) ==
    [isObject |-> TRUE, date |-> date, weight |-> weight, weekDay |-> weekDay,
     changePercent |-> derived, changeKg |-> derived, dailyChange |-> derived]

\* null where an entry is expected
NullEntry ==
    [isObject |-> FALSE, date |-> NoText, weight |-> Undefined, weekDay |-> Undefined,
     changePercent |-> Undefined, changeKg |-> Undefined, dailyChange |-> Undefined]

\* 70.126 kg on 2025-01-15, a weekDay with a tag, derived fields -0.355
TaggedEntry ==
    RawEntry(DateText(<<2025, 1, 15>>), Num(Frac(70126, 1000)),
             Str(<<"<", "script", ">", "Monday", " ">>), Num(Frac(-355, 1000)))

\* the last date and the least weight the checks let through, no weekDay
BoundaryEntry ==
    RawEntry(DateText(<<Today[1] + 1, Today[2], Today[3]>>), Num(Frac(20, 1)),
             Undefined, Undefined)

PlainEntry(ymd, kg) == RawEntry(DateText(ymd), Num(Frac(kg, 1)), Str(<<"Monday">>), Undefined)

\* month 13
Month13Entry == PlainEntry(<<2025, 13, 1>>, 70)

\* 9999 kg
HeavyEntry == PlainEntry(<<2025, 2, 1>>, 9999)

\* 19.99 kg
LightEntry ==
    RawEntry(DateText(<<2025, 2, 1>>), Num(Frac(1999, 100)), Str(<<"Monday">>), Undefined)

\* the day before 2000-01-01 and the day after today + 1 year
OldEntry == PlainEntry(<<1999, 12, 31>>, 70)

FutureEntry == PlainEntry(<<Today[1] + 1, Today[2], Today[3] + 1>>, 70)

\* a date of another shape, and a weight that is a string
UnshapedEntry == RawEntry(OtherText, Num(Frac(70, 1)), Str(<<"Monday">>), Undefined)

TextWeightEntry ==
    RawEntry(DateText(<<2025, 2, 1>>), Str(<<"70">>), Str(<<"Monday">>), Undefined)

CodecEntries ==
    {TaggedEntry, BoundaryEntry, Month13Entry, HeavyEntry, LightEntry, OldEntry,
     FutureEntry, UnshapedEntry, TextWeightEntry, NullEntry}

RawTarget(kind, height) ==
    [kind |-> kind,
     startDate |-> DateText(<<2025, 1, 1>>), endDate |-> DateText(<<2025, 12, 31>>),
     startWeight |-> Num(Frac(90, 1)), endWeight |-> Num(Frac(75, 1)),
     height |-> Num(Frac(height, 1)),
     totalDuration |-> Num(Frac(364, 1)), totalKg |-> Num(Frac(15, 1))]

NullTarget == RawTarget("null", 0)

GoodTarget == RawTarget("object", 180)

\* a height of 10 cm
BadTarget == RawTarget("object", 10)

RawAchievement(name, unlocked) ==
    [isObject |-> TRUE, id |-> Str(<<"first_entry">>), name |-> name,
     description |-> Str(<<"Log", " ", "a", " ", "weight">>), icon |-> Str(<<"Star">>),
     category |-> Str(<<"milestone">>), unlocked |-> unlocked, unlockedAt |-> Undefined]

\* achievements and settings: none at all, or an achievement in the
\* document's format, one in the App's format (title, isUnlocked) and the
\* three settings
NoExtras ==
    [achievements |-> [isArray |-> FALSE, items |-> <<>>],
     settings |-> [isObject |-> FALSE, theme |-> Undefined,
                   timelineView |-> Undefined, reminder |-> Undefined]]

AllExtras ==
    [achievements |-> [isArray |-> TRUE,
                       items |-> <<RawAchievement(Str(<<"First", " ", "Step">>), Bool(TRUE)),
                                   RawAchievement(Undefined, Undefined)>>],
     settings |-> [isObject |-> TRUE, theme |-> Str(<<"dark">>),
                   timelineView |-> Str(<<"weekly">>),
                   reminder |-> Str(<<"<", "b", ">", "08:00">>)]]

\* settings with a theme and a view mode the App does not know, a reminder
\* that is a number and a key of their own
OddExtras ==
    [achievements |-> [isArray |-> FALSE, items |-> <<>>],
     settings |-> [isObject |-> TRUE, theme |-> Str(<<"blue">>),
                   timelineView |-> Str(<<"yearly">>), reminder |-> Num(Frac(8, 1)),
                   language |-> Str(<<"tr">>)]]

Document(version, exportDate, entryArray, target, extras) ==
    [isObject |-> TRUE, version |-> version, exportDate |-> exportDate,
     entries |-> entryArray, targetData |-> target,
     achievements |-> extras.achievements, settings |-> extras.settings]

Array(items) == [isArray |-> TRUE, items |-> items, more |-> 0, fill |-> NullEntry]

NotAnArray == [isArray |-> FALSE, items |-> <<>>, more |-> 0, fill |-> NullEntry]

\* one element more than the limit
OversizedArray ==
    [isArray |-> TRUE, items |-> <<>>, more |-> MAX_BACKUP_ENTRIES + 1, fill |-> TaggedEntry]

\* a JSON value that is not an object
NotADocument ==
    [Document(Undefined, Undefined, NotAnArray, NullTarget, NoExtras) EXCEPT !.isObject = FALSE]

GoodVersion == Str(<<"1", "0", "0">>)

\* "v1.0"
BadVersion == Str(<<"v1", "0">>)

ExportDate == Str(<<"2026-11-03T10:00:00.000Z">>)

SeqsUpTo(S, n) == UNION {[1..k -> S] : k \in 0..n}

EntryArrays(rawEntries) ==
    {NotAnArray, OversizedArray} \cup {Array(items) : items \in SeqsUpTo(rawEntries, MaxDocLen)}

DocumentsOver(versions, exportDates, rawEntries, targets, extras) ==
    {NotADocument} \cup
    {Document(v, x, a, t, e) :
        v \in versions, x \in exportDates, a \in EntryArrays(rawEntries),
        t \in targets, e \in extras}

\* the documents validateBackupData is checked on
CodecDocuments ==
    DocumentsOver({GoodVersion, BadVersion, Undefined}, {ExportDate, Undefined},
                  CodecEntries, {NullTarget, GoodTarget, BadTarget},
                  {NoExtras, AllExtras, OddExtras})

\* the files restored in the App: text that does not parse, and documents
BackupFiles ==
    {[parsed |-> FALSE, data |-> NotADocument]} \cup
    {[parsed |-> TRUE, data |-> d] :
        d \in DocumentsOver({GoodVersion, BadVersion}, {ExportDate},
                            {TaggedEntry, BoundaryEntry, HeavyEntry},
                            {NullTarget, GoodTarget}, {NoExtras, AllExtras})}

-----------------------------------------------------------------------------
(* The App with restore, and the codec on its own *)

NextBackup ==
    \/ LoadData
    \/ \E f \in BackupFiles : RestoreBackup(f)
    \/ ReloadTimerFires
    \/ Reload
    \/ AddEntry(<<2025, 10, 1>>, Weight(8000))
    \/ DeleteEntry(mockWeightDataFull[1].date)

SpecBackup == Init /\ [][NextBackup]_vars

\* the dates of the seed
SeedDates == {mockWeightData[i].date : i \in 1..Len(mockWeightData)}

\* files: text that does not parse, a document with one entry and a goal,
\* one with no entries, one whose goal is null
ScreenFiles ==
    {[parsed |-> FALSE, data |-> NotADocument]} \cup
    {[parsed |-> TRUE, data |-> Document(GoodVersion, ExportDate, Array(items), t, NoExtras)] :
        items \in {<<>>, <<TaggedEntry>>}, t \in {NullTarget, GoodTarget}}

\* the App with every entry within reach of a delete
NextAvailable ==
    \/ LoadData
    \/ AddEntry(<<2025, 10, 8>>, Weight(8000))
    \/ \E e \in SeedDates : UpdateEntry(e, e, Weight(11000))
    \/ \E d \in SeedDates \cup {<<2025, 10, 8>>} : DeleteEntry(d)
    \/ \E f \in ScreenFiles : RestoreBackup(f)
    \/ ReloadTimerFires
    \/ Reload

SpecAvailable == Init /\ [][NextAvailable]_vars

\* createBackup: the document in the downloaded file
createBackup ==
    [isObject |-> TRUE,
     version |-> Str(<<"1", "0", "0">>),
     exportDate |-> Str(<<"2026-11-03T10:00:00.000Z">>),
     entries |-> [isArray |-> TRUE,
                  items |-> [i \in 1..Len(entries) |-> stringifyEntry(entries[i])],
                  more |-> 0,
                  fill |-> NullEntry],
     targetData |-> IF targetData = <<>>
                    THEN [stringifyTargetData(mockTargetData) EXCEPT !.kind = "null"]
                    ELSE stringifyTargetData(targetData[1]),
     achievements |->
         [isArray |-> TRUE,
          items |-> IF lsAchievements.state = "json"
                    THEN [i \in 1..Len(lsAchievements.val[1]) |->
                              stringifyAchievement(lsAchievements.val[1][i])]
                    ELSE <<>>],
     settings |-> [isObject |-> TRUE,
                   theme |-> getItemOrUndefined(lsTheme),
                   timelineView |-> getItemOrUndefined(lsTimelineView),
                   reminder |-> getItemOrUndefined(lsReminder)]]

\* the Create Backup button
CreateBackup ==
    /\ Dashboard
    /\ Len(entries) # 0
    /\ document' = createBackup
    /\ op' = Op("export", NoDate, "ok")
    /\ UNCHANGED <<lsVars, loading, entries, targetData, reloadTimer, validation,
                   componentVars>>

\* the view modes and the reminder settings the user sets
ViewModes == {"daily", "weekly", "monthly"}

ReminderSettings ==
    {[enabled |-> FALSE, time |-> "09:00", skipWeekends |-> FALSE],
     [enabled |-> TRUE, time |-> "08:30", skipWeekends |-> TRUE]}

\* the App with export: the file a restore reads is the one just downloaded
NextExport ==
    \/ LoadData
    \/ \E w \in {Weight(8000), Weight(7555)} : AddEntry(<<2025, 10, 1>>, w)
    \/ DeleteEntry(mockWeightDataFull[1].date)
    \/ \E viewMode \in ViewModes : SaveViewMode(viewMode)
    \/ \E settings \in ReminderSettings : SaveReminderSettings(settings)
    \/ CreateBackup
    \/ (op.name = "export" /\ RestoreBackup([parsed |-> TRUE, data |-> document]))
    \/ ReloadTimerFires

SpecExport == Init /\ [][NextExport]_vars

InitCodec ==
    /\ lsEntries = Absent
    /\ lsTarget = Absent
    /\ lsAchievements = Absent
    /\ lsTheme = Absent
    /\ lsTimelineView = Absent
    /\ lsReminder = Absent
    /\ loading = TRUE
    /\ entries = <<>>
    /\ targetData = <<>>
    /\ reloadTimer = FALSE
    /\ op = Op("init", NoDate, "ok")
    /\ document \in CodecDocuments
    /\ validation = <<>>
    /\ InitComponents

NextCodec == ValidateDocument

SpecCodec == InitCodec /\ [][NextCodec]_vars

\* a run of MAX_STRING_LENGTH characters
Run10 == "aaaaaaaaaa"

Run100 == Run10 \o Run10 \o Run10 \o Run10 \o Run10 \o Run10 \o Run10 \o Run10 \o Run10 \o Run10

LongRun ==
    Run100 \o Run100 \o Run100 \o Run100 \o Run100 \o Run100 \o Run100 \o Run100 \o Run100 \o Run100

\* the values of a free-text field: missing, a number, and every string of
\* up to MaxTextLen tokens
TextTokens == {"<", ">", "'", "\"", " ", "a", LongRun}

FreeTexts == {Undefined, Num(Frac(7, 1))} \cup {Str(t) : t \in SeqsUpTo(TextTokens, MaxTextLen)}

\* a document whose free-text fields all hold the same value
TextDocument(text) ==
    Document(GoodVersion, ExportDate,
             Array(<<RawEntry(DateText(<<2025, 1, 15>>), Num(Frac(70, 1)), text, Undefined)>>),
             NullTarget,
             [achievements |->
                  [isArray |-> TRUE,
                   items |-> <<[isObject |-> TRUE, id |-> text, name |-> text,
                                description |-> text, icon |-> text,
                                category |-> Str(<<"milestone">>),
                                unlocked |-> Bool(TRUE), unlockedAt |-> text]>>],
              settings |-> [isObject |-> TRUE, theme |-> Undefined,
                            timelineView |-> Undefined, reminder |-> text]])

InitSanitize ==
    /\ lsEntries = Absent
    /\ lsTarget = Absent
    /\ lsAchievements = Absent
    /\ lsTheme = Absent
    /\ lsTimelineView = Absent
    /\ lsReminder = Absent
    /\ loading = TRUE
    /\ entries = <<>>
    /\ targetData = <<>>
    /\ reloadTimer = FALSE
    /\ op = Op("init", NoDate, "ok")
    /\ document \in {TextDocument(text) : text \in FreeTexts}
    /\ validation = <<>>
    /\ InitComponents

SpecSanitize == InitSanitize /\ [][NextCodec]_vars

\* arrays of one element fewer than the limit, of the limit and of one
\* element more, all elements valid or all elements null
FilledArray(n, fill) == [isArray |-> TRUE, items |-> <<>>, more |-> n, fill |-> fill]

SizedDocuments ==
    {Document(v, x, FilledArray(n, fill), t, e) :
        v \in {GoodVersion, BadVersion, Undefined}, x \in {ExportDate, Undefined},
        n \in {MAX_BACKUP_ENTRIES - 1, MAX_BACKUP_ENTRIES, MAX_BACKUP_ENTRIES + 1},
        fill \in {TaggedEntry, NullEntry},
        t \in {NullTarget, GoodTarget, BadTarget}, e \in {NoExtras}}

InitSize ==
    /\ lsEntries = Absent
    /\ lsTarget = Absent
    /\ lsAchievements = Absent
    /\ lsTheme = Absent
    /\ lsTimelineView = Absent
    /\ lsReminder = Absent
    /\ loading = TRUE
    /\ entries = <<>>
    /\ targetData = <<>>
    /\ reloadTimer = FALSE
    /\ op = Op("init", NoDate, "ok")
    /\ document \in SizedDocuments
    /\ validation = <<>>
    /\ InitComponents

SpecSize == InitSize /\ [][NextCodec]_vars

-----------------------------------------------------------------------------
(* Overlapping addWeightEntry calls *)

\* handleSubmitEntry with editingEntry = null up to the await of
\* addWeightEntry, whose timer is set; concurrent (the calls under way) and existed record what
\* was the case when the call was made
SubmitEntry(date, weight) ==
    /\ Dashboard
    /\ validate(date, weight)
    /\ Len(adds) < MaxCalls
    /\ adds' = Append(adds,
            [entry |-> submitted(date, weight), state |-> "pending",
             concurrent |-> {k \in 1..Len(adds) : adds[k].state = "pending"},
             existed |-> findIndex(getStoredEntries(lsEntries).value, date) # -1])
    /\ op' = Op("add", <<date>>, "pending")
    /\ UNCHANGED <<lsVars, appVars, codecVars, authVars, syncVars, onboardingVars, installVars,
                   workerVars>>

\* the timer of call k fires: addWeightEntry runs to its end and
\* handleSubmitEntry goes on
AddCompletes(k) ==
    /\ k \in 1..Len(adds)
    /\ adds[k].state = "pending"
    /\ \E r \in {addWeightEntry(lsEntries, adds[k].entry)} :
           /\ lsEntries' = r.slot
           /\ entries' = IF r.outcome = "ok" THEN r.value ELSE entries
           /\ adds' = [adds EXCEPT ![k].state = r.outcome]
           /\ op' = Op("add", <<adds[k].entry.date>>, r.outcome)
    /\ UNCHANGED <<lsTarget, lsAchievements, lsTheme, lsTimelineView, lsReminder, loading,
                   targetData, reloadTimer, codecVars, authVars, syncVars, onboardingVars,
                   installVars, workerVars>>

\* the App with calls that overlap
NextCalls ==
    \/ LoadData
    \/ \E d \in FormDates, w \in FormWeights : SubmitEntry(d, w)
    \/ \E k \in 1..MaxCalls : AddCompletes(k)

SpecCalls == Init /\ [][NextCalls]_vars

-----------------------------------------------------------------------------
(* services/GoogleSheetsService.ts and the Settings panel *)

storeVars == <<lsVars, appVars, codecVars, onboardingVars, installVars, workerVars, adds>>

\* setInterval: a handle that no active interval carries
setInterval(active) == CHOOSE id \in 1..(Cardinality(active) + 1) : id \notin active

\* a variant that leaves the timer of the field running
startTokenRefreshKeepTimer(timer, active) ==
    LET id == setInterval(active)
    IN  [tokenRefreshTimer |-> <<id>>, intervals |-> active \cup {id}]

\* startTokenRefresh: the field and the active intervals after the call
startTokenRefresh(timer, active) ==
    LET cleared == IF timer # <<>> THEN active \ {timer[1]} ELSE active
        id == setInterval(cleared)
    IN  [tokenRefreshTimer |-> <<id>>, intervals |-> cleared \cup {id}]

validateTokenScopes(t) == t # <<>> /\ t[1]

\* initTokenClient, script.onload
TokenClientLoads ==
    /\ ~tokenClient
    /\ tokenClient' = TRUE
    /\ op' = Op("tokenClient", NoDate, "ok")
    /\ UNCHANGED <<storeVars, callback, requests, token, tokenRefreshTimer, intervals,
                   isSignedIn, signInPending, syncVars>>

\* Settings.handleConnect up to its await: signIn with the gapi client
\* initialised; the Connect button is rendered while isSignedIn is false
HandleConnect ==
    /\ Dashboard
    /\ ~isSignedIn
    /\ IF ~tokenClient
       THEN /\ op' = Op("connect", NoDate, "failed")
            /\ UNCHANGED <<callback, requests, signInPending>>
       ELSE /\ requests < MaxRequests
            /\ callback' = <<"signIn">>
            /\ requests' = requests + 1
            /\ signInPending' = TRUE
            /\ op' = Op("connect", NoDate, "pending")
    /\ UNCHANGED <<storeVars, tokenClient, token, tokenRefreshTimer, intervals,
                   isSignedIn, syncVars>>

\* the interval's handler: refreshToken
RefreshTimerFires ==
    /\ intervals # {}
    /\ IF ~tokenClient
       THEN UNCHANGED <<callback, requests>>
       ELSE /\ requests < MaxRequests
            /\ callback' = <<"refresh">> \o callback
            /\ requests' = requests + 1
    /\ op' = Op("refresh", NoDate, "pending")
    /\ UNCHANGED <<storeVars, tokenClient, token, tokenRefreshTimer, intervals,
                   isSignedIn, signInPending, syncVars>>

\* what the identity service answers: an error, a token with the scope, a
\* token without it
TokenResponses ==
    {[error |-> TRUE, scope |-> FALSE], [error |-> FALSE, scope |-> TRUE],
     [error |-> FALSE, scope |-> FALSE]}

\* the identity service answers a request: it hands a granted token to the
\* gapi client and calls tokenClient.callback; when signIn's promise is
\* fulfilled handleConnect goes on
TokenResponse(response) ==
    /\ requests > 0
    /\ requests' = requests - 1
    /\ token' = IF response.error THEN token ELSE <<response.scope>>
    /\ IF callback = <<>>
       THEN /\ op' = Op("token", NoDate, "ignored")
            /\ UNCHANGED <<callback, tokenRefreshTimer, intervals, isSignedIn, signInPending>>
       ELSE IF Head(callback) = "refresh"
       THEN /\ callback' = Tail(callback)
            /\ op' = Op("token", NoDate, IF response.error THEN "refreshFailed" ELSE "refreshed")
            /\ UNCHANGED <<tokenRefreshTimer, intervals, isSignedIn, signInPending>>
       ELSE IF response.error \/ ~validateTokenScopes(token')
       THEN /\ signInPending' = FALSE
            /\ op' = Op("token", NoDate, "rejected")
            /\ UNCHANGED <<callback, tokenRefreshTimer, intervals, isSignedIn>>
       ELSE /\ \E r \in {startTokenRefresh(tokenRefreshTimer, intervals)} :
                   /\ tokenRefreshTimer' = r.tokenRefreshTimer
                   /\ intervals' = r.intervals
            /\ isSignedIn' = (isSignedIn \/ signInPending)
            /\ signInPending' = FALSE
            /\ op' = Op("token", NoDate, "signedIn")
            /\ UNCHANGED callback
    /\ UNCHANGED <<storeVars, tokenClient, syncVars>>

\* Settings.handleDisconnect: signOut; the Disconnect button is rendered
\* while isSignedIn is true
HandleDisconnect ==
    /\ Dashboard
    /\ isSignedIn
    /\ intervals' = IF tokenRefreshTimer # <<>> THEN intervals \ {tokenRefreshTimer[1]}
                    ELSE intervals
    /\ tokenRefreshTimer' = <<>>
    /\ token' = <<>>
    /\ isSignedIn' = FALSE
    /\ op' = Op("signOut", NoDate, "ok")
    /\ UNCHANGED <<storeVars, tokenClient, callback, requests, signInPending, syncVars>>

\* a row of the sheet 'Weight Data': the date and week-day cells as they
\* are, and what parseFloat makes of the four number cells (<<>> is NaN)
Row(date, weekDay, weight, changePercent, changeKg, dailyChange) ==
    [date |-> date, weekDay |-> weekDay, weight |-> weight,
     changePercent |-> changePercent, changeKg |-> changeKg, dailyChange |-> dailyChange]

\* parseFloat(cell) || 0
OrZero(cell) == IF cell = <<>> \/ cell = <<Zero>> THEN Zero ELSE cell[1]

\* fetchWeightData: the entries made from the rows of the response
fetchWeightData(rows) ==
    [i \in 1..Len(rows) |->
        Entry(rows[i].date, rows[i].weekDay, rows[i].weight,
              OrZero(rows[i].changePercent), OrZero(rows[i].changeKg),
              OrZero(rows[i].dailyChange))]

\* updateSyncStatus: the time of a success is the call it falls into
updateSyncStatus(status) ==
    /\ syncStatus' = status
    /\ lastSyncTime' = IF status = "success" THEN <<Len(syncs)>> ELSE lastSyncTime

\* Settings.handleSync up to its await: syncFromSheets starts its two
\* fetches; the Sync button is rendered while isSignedIn is true, so the
\* early return is not taken
HandleSync ==
    /\ Dashboard
    /\ isSignedIn
    /\ Len(syncs) < MaxSyncs
    /\ syncs' = Append(syncs, [weight |-> Pending, target |-> Pending])
    /\ syncStatus' = "syncing"
    /\ op' = Op("sync", NoDate, "pending")
    /\ UNCHANGED <<storeVars, authVars, lastSyncTime>>

\* handleSync after its await, when the two fetches of a call are
\* fulfilled: the two writes, then onSyncComplete, the App's loadData, whose
\* loading screen takes the place of the dashboard and of the Settings panel
syncComplete(call) ==
    /\ lsEntries' = Json(call.weight.value[1])
    /\ lsTarget' = Json(call.target.value[1])
    /\ loading' = TRUE
    /\ isSignedIn' = FALSE
    /\ op' = Op("sync", NoDate, "ok")
    /\ UNCHANGED <<lsAchievements, lsTheme, lsTimelineView, lsReminder, entries, targetData,
                   reloadTimer, codecVars, onboardingVars, installVars, workerVars, adds,
                   tokenClient, callback, requests,
                   token, tokenRefreshTimer, intervals, signInPending>>

\* a fetch is settled and the call is not over, or Promise.all has rejected
syncSettled(call, outcome) ==
    /\ op' = Op("sync", NoDate, outcome)
    /\ UNCHANGED <<storeVars, authVars>>

\* one of the two fetches of call k gets its response or fails
FetchSettles(k, field, result) ==
    /\ k \in 1..Len(syncs)
    /\ syncs[k][field].state = "pending"
    /\ syncs' = [syncs EXCEPT ![k][field] = result]
    /\ updateSyncStatus(IF result.state = "fulfilled" THEN "success" ELSE "error")
    /\ LET call == syncs'[k]
           other == IF field = "weight" THEN call.target ELSE call.weight
       IN  IF result.state = "rejected"
           THEN syncSettled(call, IF other.state = "rejected" THEN "lateFailure" ELSE "failed")
           ELSE IF other.state = "fulfilled" THEN syncComplete(call)
           ELSE syncSettled(call, IF other.state = "rejected" THEN "lateSuccess" ELSE "pending")

\* sheets: empty, two rows in date order with their derived cells filled
\* in, the same two rows the other way round, and rows whose derived cells
\* are blank
SheetRow1 == Row(<<2025, 10, 1>>, weekDayOf(<<2025, 10, 1>>), 10000, <<Zero>>, <<Zero>>, <<Zero>>)

SheetRow2 ==
    Row(<<2025, 10, 3>>, weekDayOf(<<2025, 10, 3>>), 9800,
        <<Frac(-2, 1)>>, <<Frac(-2, 1)>>, <<Frac(-1, 1)>>)

BlankRow2 == Row(<<2025, 10, 3>>, weekDayOf(<<2025, 10, 3>>), 9800, <<>>, <<>>, <<>>)

Sheets == {<<>>, <<SheetRow1, SheetRow2>>, <<SheetRow2, SheetRow1>>, <<SheetRow1, BlankRow2>>}

SheetTargets == {mockTargetData, [mockTargetData EXCEPT !.endWeight = 8000, !.totalKg = 3235]}

NextSheets ==
    \/ LoadData
    \/ TokenClientLoads
    \/ HandleConnect
    \/ RefreshTimerFires
    \/ \E response \in TokenResponses : TokenResponse(response)
    \/ HandleDisconnect
    \/ HandleSync
    \/ \E k \in 1..MaxSyncs, rows \in Sheets :
           FetchSettles(k, "weight", Fulfilled(fetchWeightData(rows)))
    \/ \E k \in 1..MaxSyncs, t \in SheetTargets : FetchSettles(k, "target", Fulfilled(t))
    \/ \E k \in 1..MaxSyncs, field \in {"weight", "target"} : FetchSettles(k, field, Rejected)

SpecSheets == Init /\ [][NextSheets]_vars

\* the Settings panel without the sync
NextAuth ==
    \/ LoadData
    \/ TokenClientLoads
    \/ HandleConnect
    \/ RefreshTimerFires
    \/ \E response \in TokenResponses : TokenResponse(response)
    \/ HandleDisconnect

SpecAuth == Init /\ [][NextAuth]_vars

-----------------------------------------------------------------------------
(* components/OnboardingModal.tsx *)

StepCount == 4

\* the modal is mounted and renders its steps
OnboardingShown == Dashboard /\ showOnboarding /\ isVisible

otherVars == <<lsVars, appVars, codecVars, authVars, syncVars, installVars, workerVars, adds>>

\* handleComplete and handleSkip: the flag, then onComplete
completeOnboarding(outcome) ==
    /\ lsOnboarding' = Json(TRUE)
    /\ isVisible' = FALSE
    /\ showOnboarding' = FALSE
    /\ op' = Op("onboarding", NoDate, outcome)
    /\ UNCHANGED <<otherVars, currentStep>>

HandleNext ==
    /\ OnboardingShown
    /\ IF currentStep < StepCount - 1
       THEN /\ currentStep' = currentStep + 1
            /\ op' = Op("onboarding", NoDate, "next")
            /\ UNCHANGED <<otherVars, lsOnboarding, showOnboarding, isVisible>>
       ELSE completeOnboarding("completed")

HandlePrev ==
    /\ OnboardingShown
    /\ currentStep > 0
    /\ currentStep' = currentStep - 1
    /\ op' = Op("onboarding", NoDate, "prev")
    /\ UNCHANGED <<otherVars, lsOnboarding, showOnboarding, isVisible>>

HandleSkip ==
    /\ OnboardingShown
    /\ completeOnboarding("skipped")

\* the App with the onboarding modal
NextOnboarding ==
    \/ LoadData
    \/ HandleNext
    \/ HandlePrev
    \/ HandleSkip
    \/ \E d \in FormDates : AddEntry(d, Weight(8000))
    \/ \E d \in EditDates : DeleteEntry(d)
    \/ Reload

SpecOnboarding == Init /\ [][NextOnboarding]_vars

-----------------------------------------------------------------------------
(* components/PWAInstallPrompt.tsx *)

\* the component renders the prompt
PromptShown == Dashboard /\ showPrompt /\ ~isInstalled

restVars ==
    <<lsVars, appVars, codecVars, authVars, syncVars, onboardingVars, workerVars, adds>>

\* the handler of beforeinstallprompt: it keeps the event and arms a timer
BeforeInstallPrompt ==
    /\ Dashboard
    /\ listening
    /\ showTimers < MaxShowTimers
    /\ deferredPrompt' = TRUE
    /\ showTimers' = showTimers + 1
    /\ op' = Op("beforeinstallprompt", NoDate, "ok")
    /\ UNCHANGED <<restVars, lsDismissed, now, listening, showPrompt, isInstalled>>

\* a timer armed by the handler fires
ShowTimerFires ==
    /\ Dashboard
    /\ showTimers > 0
    /\ showTimers' = showTimers - 1
    /\ showPrompt' = TRUE
    /\ op' = Op("showTimer", NoDate, "ok")
    /\ UNCHANGED <<restVars, lsDismissed, now, listening, deferredPrompt, isInstalled>>

HandleDismiss ==
    /\ PromptShown
    /\ lsDismissed' = Json(now)
    /\ showPrompt' = FALSE
    /\ op' = Op("dismiss", NoDate, "ok")
    /\ UNCHANGED <<restVars, now, listening, deferredPrompt, isInstalled, showTimers>>

\* handleInstall with the user's choice made
HandleInstall ==
    /\ PromptShown
    /\ deferredPrompt
    /\ deferredPrompt' = FALSE
    /\ showPrompt' = FALSE
    /\ op' = Op("install", NoDate, "ok")
    /\ UNCHANGED <<restVars, lsDismissed, now, listening, isInstalled, showTimers>>

\* the listener of appinstalled
AppInstalled ==
    /\ Dashboard
    /\ listening
    /\ isInstalled' = TRUE
    /\ showPrompt' = FALSE
    /\ deferredPrompt' = FALSE
    /\ op' = Op("appinstalled", NoDate, "ok")
    /\ UNCHANGED <<restVars, lsDismissed, now, listening, showTimers>>

\* a day passes
Tick ==
    /\ now < DayNumber(Today) + MaxDays
    /\ now' = now + 1
    /\ op' = Op("tick", NoDate, "ok")
    /\ UNCHANGED <<restVars, lsDismissed, listening, deferredPrompt, showPrompt, isInstalled,
                   showTimers>>

\* the App with the install prompt
NextInstall ==
    \/ LoadData
    \/ BeforeInstallPrompt
    \/ ShowTimerFires
    \/ HandleDismiss
    \/ HandleInstall
    \/ AppInstalled
    \/ Tick
    \/ Reload

SpecInstall == Init /\ [][NextInstall]_vars

-----------------------------------------------------------------------------
(* The service worker *)

MAX_DYNAMIC_CACHE_SIZE == 50

pageVars ==
    <<lsVars, appVars, op, codecVars, authVars, syncVars, onboardingVars, installVars, adds>>

\* Keys are named by their place in cache.keys(), 1 being the oldest; a
\* handler's url is the place of its request's key, 0 when the cache has no
\* entry for it.

\* where the key at place q is after the key at place p has become the
\* newest of size keys
Moved(p, size, q) == IF q = p THEN size ELSE IF q > p THEN q - 1 ELSE q

\* where the key at place q is after the keys at the places deleted are
\* gone, 0 when it is one of them
Remaining(deleted, q) ==
    IF q \in deleted THEN 0 ELSE q - Cardinality({d \in deleted : d < q})

\* a variant that deletes nothing
trimCacheKeepsAll(size, maxItems) == {}

\* trimCache after cache.keys(): the places of the keys it goes on to delete
trimCache(size, maxItems) ==
    IF size > maxItems THEN 1..(size - maxItems) ELSE {}

\* a slot whose handler has returned and whose cache work is done is free
Settle(handler) ==
    IF handler.phase = "writing" /\ ~handler.put /\ handler.trim = "none" THEN Idle ELSE handler

\* the keys the cache holds and the ones the handlers are about to add
KeysInSight ==
    dynamicCache
        + Cardinality({h \in 1..MaxHandlers :
                          /\ handlers[h] # Idle
                          /\ handlers[h].url = 0
                          /\ handlers[h].phase = "writing" => handlers[h].put})

\* the fetch event for a URL of the app: networkFirst or staleWhileRevalidate
\* up to its fetch; the URL is the one of the newest entry or one that no
\* entry and no other handler has
Request(h, strategy, cached) ==
    /\ handlers[h] = Idle
    /\ IF cached THEN dynamicCache > 0 ELSE KeysInSight < MaxUrls
    /\ handlers' = [handlers EXCEPT ![h] =
            [phase |-> "fetch", strategy |-> strategy,
             url |-> IF cached THEN dynamicCache ELSE 0]]
    /\ UNCHANGED <<pageVars, dynamicCache>>

\* fetch settles: an ok response is handed to cache.put, and networkFirst
\* calls trimCache; neither is awaited
Responds(h, ok) ==
    /\ handlers[h].phase = "fetch"
    /\ handlers' = [handlers EXCEPT ![h] =
            IF ok
            THEN [phase |-> "writing", strategy |-> handlers[h].strategy, url |-> handlers[h].url,
                  put |-> TRUE,
                  trim |-> IF handlers[h].strategy = "network-first" THEN "keys" ELSE "none",
                  deleted |-> {}]
            ELSE Idle]
    /\ UNCHANGED <<pageVars, dynamicCache>>

\* what a handler holds after the places of the keys have changed
Renamed(handler, place(_)) ==
    IF handler = Idle THEN Idle
    ELSE IF handler.phase = "fetch"
    THEN [handler EXCEPT !.url = IF @ = 0 THEN 0 ELSE place(@)]
    ELSE [handler EXCEPT !.url = IF @ = 0 THEN 0 ELSE place(@),
                         !.deleted = {place(q) : q \in @} \ {0}]

\* the cache takes the entry of a put: a new key comes last, the entry of
\* a key it has is replaced and comes last
Put(h) ==
    /\ handlers[h].phase = "writing"
    /\ handlers[h].put
    /\ LET p == handlers[h].url
           done == [handlers EXCEPT ![h] = Settle([@ EXCEPT !.put = FALSE, !.url = 0])]
       IN  IF p = 0
           THEN /\ dynamicCache' = dynamicCache + 1
                /\ handlers' = done
           ELSE /\ dynamicCache' = dynamicCache
                /\ handlers' = [g \in 1..MaxHandlers |->
                        Renamed(done[g], LAMBDA q : Moved(p, dynamicCache, q))]
    /\ UNCHANGED pageVars

\* trimCache up to its second await: cache.keys() answers
TrimKeys(h) ==
    /\ handlers[h].phase = "writing"
    /\ handlers[h].trim = "keys"
    /\ \E deleted \in {trimCache(dynamicCache, MAX_DYNAMIC_CACHE_SIZE)} :
           handlers' = [handlers EXCEPT ![h] =
               IF deleted = {} THEN Settle([@ EXCEPT !.trim = "none"])
               ELSE [@ EXCEPT !.trim = "delete", !.deleted = deleted]]
    /\ UNCHANGED <<pageVars, dynamicCache>>

\* the deletes of trimCache
TrimDelete(h) ==
    /\ handlers[h].phase = "writing"
    /\ handlers[h].trim = "delete"
    /\ LET deleted == handlers[h].deleted
           done == [handlers EXCEPT ![h] = Settle([@ EXCEPT !.trim = "none", !.deleted = {}])]
       IN  /\ dynamicCache' = dynamicCache - Cardinality(deleted)
           /\ handlers' = [g \in 1..MaxHandlers |->
                   Renamed(done[g], LAMBDA q : Remaining(deleted, q))]
    /\ UNCHANGED pageVars

NextWorker ==
    \/ \E h \in 1..MaxHandlers, strategy \in {"network-first", "stale-while-revalidate"},
          cached \in BOOLEAN : Request(h, strategy, cached)
    \/ \E h \in 1..MaxHandlers, ok \in BOOLEAN : Responds(h, ok)
    \/ \E h \in 1..MaxHandlers : Put(h)
    \/ \E h \in 1..MaxHandlers : TrimKeys(h)
    \/ \E h \in 1..MaxHandlers : TrimDelete(h)

SpecWorker == Init /\ [][NextWorker]_vars

-----------------------------------------------------------------------------
(* Properties of the entry store *)

\* the last handler was a store mutation that succeeded; entries is then
\* the collection it returned
Mutated == op.name \in {"add", "update", "delete"} /\ op.outcome = "ok"

\* the collection getStoredEntries reads from a slot
Stored(slot) == getStoredEntries(slot).value

DerivedFieldsOf(es, i) ==
    IF i = 1 THEN <<Zero, Zero, Zero>>
    ELSE LET kg == es[i].weight - es[i - 1].weight
             days == Max(1, DayNumber(es[i].date) - DayNumber(es[i - 1].date))
         IN  <<Frac(kg, 100), Frac(kg * 100, es[i - 1].weight), Frac(kg, 100 * days)>>

DerivedFieldsHold(es) ==
    \A i \in 1..Len(es) :
        <<es[i].changeKg, es[i].changePercent, es[i].dailyChange>> = DerivedFieldsOf(es, i)

SortedAscending(es) ==
    \A i, j \in 1..Len(es) : i < j => DayNumber(es[i].date) <= DayNumber(es[j].date)

DistinctDates(es) ==
    \A i, j \in 1..Len(es) : i # j => es[i].date # es[j].date

\* C1: after every successful insert, update or delete, the earliest entry
\* of the returned collection has its three derived fields at 0 and every
\* other entry has changeKg = weight[i] - weight[i-1], changePercent =
\* changeKg / weight[i-1] * 100 and dailyChange = changeKg / max(1, days
\* between the two dates).
C1_DerivedFields == Mutated => DerivedFieldsHold(entries)

\* an update produced a collection whose second entry changed by a
\* non-zero amount over more than one day
C1_Witness ==
    /\ op.name = "update" /\ op.outcome = "ok"
    /\ Len(entries) >= 2
    /\ entries[2].changeKg # Zero
    /\ entries[2].dailyChange # entries[2].changeKg

\* C2: in every state reached by inserts, updates (also of the date) and
\* deletes, no two entries of the store have the same date.
C2_UniqueDates == lsEntries.state = "json" => DistinctDates(lsEntries.val[1])

\* C3: the collection every successful insert, update and delete returns,
\* and the one listEntries then reads, is sorted ascending by date.
C3_Sorted == Mutated => SortedAscending(entries) /\ SortedAscending(Stored(lsEntries))

\* an insert put an entry in front of the entries that were there
C3_Witness ==
    /\ op.name = "add" /\ op.outcome = "ok"
    /\ Len(entries) >= 2
    /\ entries[1].date = op.date[1]

\* C4: an insert with a date an existing entry has fails with the
\* duplicate-entry error and leaves the persisted collection as it was.
C4_DuplicateRejected ==
    [][(op'.name = "add" /\ findIndex(Stored(lsEntries), op'.date[1]) # -1)
        => (op'.outcome = "duplicate" /\ lsEntries' = lsEntries)]_vars

\* an insert was refused as a duplicate
C4_Witness == op.name = "add" /\ op.outcome = "duplicate"

\* C5: an update or a delete with a date no entry has fails with the
\* entry-not-found error and leaves the persisted collection as it was.
C5_NotFoundRejected ==
    [][(op'.name \in {"update", "delete"} /\ findIndex(Stored(lsEntries), op'.date[1]) = -1)
        => (op'.outcome = "notFound" /\ lsEntries' = lsEntries)]_vars

\* a delete of a date the store does not hold was refused while the store
\* held the seed with its stored derived fields
C5_Witness ==
    /\ op.name = "delete" /\ op.outcome = "notFound"
    /\ lsEntries = Json(mockWeightData)

-----------------------------------------------------------------------------
(* Properties of the restore *)

Restored == op.name = "restore" /\ op.outcome \in {"ok", "warnings"}

\* C6: after a successful import the validated entries replace the live
\* store: the persisted collection equals the validated entries.
C6_RestoreReplacesStore == Restored => Stored(lsEntries) = entries

\* C7: an import that ends in a hard failure writes nothing: the persisted
\* entries, goal, achievements and settings and the entries and goal the App
\* holds are the same after it as before.
C7_FailedRestoreWritesNothing ==
    [][(op'.name = "restore" /\ op'.outcome = "failed")
        => UNCHANGED <<lsVars, entries, targetData>>]_vars

\* an oversized document was refused after an earlier restore had written
\* achievements and settings
C7_Witness ==
    /\ op.name = "restore" /\ op.outcome = "failed"
    /\ op.detail = <<Err("tooMany", -1)>>
    /\ lsAchievements.state = "json"
    /\ lsReminder.state = "json"

-----------------------------------------------------------------------------
(* Properties of validateBackupData *)

Validated == validation # <<>>

\* the import of the validated document goes through (restoreBackup does
\* not throw)
Imports(v) == v.isValid /\ v.data # <<>>

GoodHeader(d) ==
    /\ d.isObject
    /\ d.version.type = "string" /\ matchesVersion(d.version.str)
    /\ d.exportDate.type = "string"

\* C8: a document whose version is missing or not digits.digits.digits,
\* whose exportDate is not a string or whose entries are not an array is
\* never imported.
C8_MalformedIsFatal ==
    (Validated /\ document.isObject /\ ~(GoodHeader(document) /\ document.entries.isArray))
        => ~Imports(validation[1])

\* the document passes every check made before the entries are looked at
StructurallyValid(d) ==
    GoodHeader(d) /\ d.entries.isArray /\ ArrayLength(d.entries) <= MAX_BACKUP_ENTRIES

\* the positions (from 1) of the elements that pass the date and weight checks
Kept(items) == {i \in 1..Len(items) : validateWeightEntry(items[i]) # <<>>}

Dropped(items) == (1..Len(items)) \ Kept(items)

\* the k-th smallest element of a set of numbers
Nth(S, k) == CHOOSE i \in S : Cardinality({j \in S : j < i}) = k - 1

EntryWarnings(v) == SelectSeq(v.errors, LAMBDA e : e.kind = "entry")

C10_SurvivorsInRange ==
    (Validated /\ validation[1].data # <<>>) =>
        \A k \in 1..Len(validation[1].data[1].entries) :
            LET e == validation[1].data[1].entries[k]
            IN  /\ IsCalendarDate(e.date)
                /\ DayNumber(e.date) >= DayNumber(<<2000, 1, 1>>)
                /\ DayNumber(e.date) <= DayNumber(<<Today[1] + 1, Today[2], Today[3]>>)
                /\ e.weight >= 2000 /\ e.weight <= 50000

\* the document reaches the loop over its entries
ReachesEntries(d) ==
    d.isObject /\ d.entries.isArray /\ ArrayLength(d.entries) <= MAX_BACKUP_ENTRIES

\* the validation ended at the empty-result check
NoValidEntriesError(v) == ~v.isValid /\ v.errors = <<Err("noValid", -1)>> /\ v.data = <<>>

\* C11: for a document that reaches the entry loop, the validation ends with
\* the no-valid-entries error exactly when the entry array is non-empty and
\* none of its elements survives; a structurally valid document with an
\* empty entry array gets past this check and its data is built.
C11_EmptyResultFatal ==
    (Validated /\ ReachesEntries(document)) =>
        /\ NoValidEntriesError(validation[1])
               <=> (ArrayLength(document.entries) > 0
                    /\ Kept(Elements(document.entries)) = {})
        /\ (StructurallyValid(document) /\ ArrayLength(document.entries) = 0)
               => (validation[1].data # <<>> /\ validation[1].data[1].entries = <<>>)

\* a document with two elements, none of which survives, ended with the
\* no-valid-entries error alone although its version is bad too
C11_Witness ==
    /\ Validated /\ ReachesEntries(document)
    /\ Len(document.entries.items) = 2
    /\ Kept(document.entries.items) = {}
    /\ document.version = BadVersion
    /\ NoValidEntriesError(validation[1])

\* the document carries a target that validateTargetData rejects
InvalidTarget(d) == d.targetData.kind # "null" /\ validateTargetData(d.targetData) = <<>>

TargetWarnings(v) == SelectSeq(v.errors, LAMBDA e : e.kind = "target")

\* C12: when a document with an invalid target would import with the target
\* absent, it imports as it is, with targetData null and exactly one warning
\* about the target; this includes the document with an empty entry array.
C12_InvalidTargetNotFatal ==
    (/\ Validated /\ document.isObject
     /\ InvalidTarget(document)
     /\ Imports(validateBackupData([document EXCEPT !.targetData = NullTarget]))) =>
        /\ Imports(validation[1])
        /\ validation[1].data[1].targetData = <<>>
        /\ Len(TargetWarnings(validation[1])) = 1

-----------------------------------------------------------------------------
(* Properties of export followed by import *)

\* C13: restoring the file that was just exported goes through without
\* warnings and hands on entries and a goal equal to the ones exported; the
\* theme, view mode and reminder settings it writes back are the persisted
\* ones.
C13_RoundTrip ==
    [][(op.name = "export" /\ op'.name = "restore") =>
           /\ op'.outcome = "ok"
           /\ entries' = entries
           /\ targetData' = targetData
           /\ lsTheme' = lsTheme
           /\ lsTimelineView' = lsTimelineView
           /\ lsReminder' = lsReminder]_vars

-----------------------------------------------------------------------------
(* Properties of sanitizeString *)

\* no character of the string is <, >, ' or "
NoDangerousCharacters(s) ==
    \A i \in 1..Len(s) : \A j \in 1..Len(s[i]) :
        SubSeq(s[i], j, j) \notin {"<", ">", "'", "\""}

Sanitized(s) == NoDangerousCharacters(s) /\ length(s) <= 1000

\* C14: every free-text value validateBackupData hands on (the weekDay of
\* an entry, the id, name, description, icon and unlockedAt of an
\* achievement, the reminder setting) has none of the characters <, >, '
\* and " and at most 1000 characters; a weekDay that is missing, not a
\* string or empty after sanitizing is "Unknown".
C14_SanitizedText ==
    (Validated /\ validation[1].data # <<>>) =>
        LET data == validation[1].data[1]
        IN  /\ \A k \in 1..Len(data.entries) : Sanitized(data.entries[k].weekDay)
            /\ \A k \in 1..Len(data.achievements) :
                   LET a == data.achievements[k]
                   IN  /\ Sanitized(a.id) /\ Sanitized(a.name)
                       /\ Sanitized(a.description) /\ Sanitized(a.icon)
                       /\ a.unlockedAt # <<>> => Sanitized(a.unlockedAt[1])
            /\ data.settings.reminder # <<>> => Sanitized(data.settings.reminder[1])
            /\ \A k \in 1..Len(document.entries.items) :
                   LET e == document.entries.items[k]
                   IN  (e.weekDay.type # "string"
                        \/ trim(stripDangerous(stripTags(e.weekDay.str))) = <<>>)
                           => (validateWeightEntry(e) # <<>>
                               => validateWeightEntry(e)[1].weekDay = <<"Unknown">>)

\* a text of a quote, 1000 characters, one more character and a space came
\* out as the 1000 characters, as weekDay and as reminder setting
C14_Witness ==
    /\ Validated
    /\ document.settings.reminder = Str(<<"'", LongRun, "a", " ">>)
    /\ validation[1].data[1].entries[1].weekDay = <<LongRun>>
    /\ validation[1].data[1].settings.reminder = <<<<LongRun>>>>
    /\ length(validation[1].data[1].entries[1].weekDay) = MAX_STRING_LENGTH

-----------------------------------------------------------------------------
(* Frame properties of the entry store *)

\* the dates of a collection in its order
DatesOf(es) == [i \in 1..Len(es) |-> es[i].date]

\* C15: when a successful update leaves every date in place, so that only
\* the entry at the sorted position k of the edited date changed, every
\* entry before k is after the call what the store held before it, with
\* its stored derived fields, and every entry from k on has the derived
\* fields of a full recomputation.
C15_UpdateFrame ==
    [][(/\ op'.name = "update" /\ op'.outcome = "ok"
        /\ DatesOf(entries') = DatesOf(Stored(lsEntries))) =>
           LET before == Stored(lsEntries)
               k == findIndex(before, op'.date[1])
           IN  /\ \A i \in 1..(k - 1) : entries'[i] = before[i]
               /\ \A i \in k..Len(entries') :
                      <<entries'[i].changeKg, entries'[i].changePercent,
                        entries'[i].dailyChange>> = DerivedFieldsOf(entries', i)]_vars

\* C16: after a successful insert, every entry in front of the new one is
\* what the store held at that position before the call, with its stored
\* derived fields; the new entry and the entries behind it have the derived
\* fields of a recomputation.
C16_InsertFrame ==
    [][(op'.name = "add" /\ op'.outcome = "ok") =>
           LET before == Stored(lsEntries)
               p == findIndex(entries', op'.date[1])
           IN  /\ \A i \in 1..(p - 1) : entries'[i] = before[i]
               /\ \A i \in p..Len(entries') :
                      <<entries'[i].changeKg, entries'[i].changePercent,
                        entries'[i].dailyChange>> = DerivedFieldsOf(entries', i)]_vars

\* C17: after a successful restore the entries the App holds are sorted
\* ascending by date and every entry has the derived fields computed from
\* the sequence, whatever order and derived values the document had.
C17_RestoreNormalises ==
    Restored => (SortedAscending(entries) /\ DerivedFieldsHold(entries))

\* C18: a load, which reads the entries through fetchWeightData, leaves the
\* entry slot as it was, also when the slot is absent or holds text that
\* does not parse; it leaves the achievements and settings slots alone.
\* (The goal slot is read by fetchTargetData in the same handler.)
C18_ListEntriesReadOnly ==
    [][op'.name = "load" =>
           /\ lsEntries' = lsEntries
           /\ UNCHANGED <<lsAchievements, lsTheme, lsTimelineView, lsReminder>>]_vars

\* C19: after every successful insert, update and delete the entry slot
\* holds the collection the call returned, and the next read of the slot
\* returns that collection.
C19_PersistedIsReturned ==
    Mutated => (lsEntries = Json(entries) /\ Stored(lsEntries) = entries)

\* an update that moved an entry to another date was saved: the slot
\* holds the re-sorted, recomputed collection that was returned
C19_Witness ==
    /\ op.name = "update" /\ op.outcome = "ok"
    /\ findIndex(entries, op.date[1]) = -1
    /\ Len(entries) = SeedLen
    /\ lsEntries = Json(entries)

\* date, weekDay and weight of an entry
Recorded(e) == <<e.date, e.weekDay, e.weight>>

\* C20: a successful delete of a date removes one entry, the one with that
\* date: the returned collection is one shorter than the stored one, the
\* entries in front of the removed position and behind it keep date,
\* weekDay and weight, and when the first entry was removed the new first
\* entry has changeKg, changePercent and dailyChange 0.
C20_DeleteRemovesOne ==
    [][(op'.name = "delete" /\ op'.outcome = "ok") =>
           LET before == Stored(lsEntries)
               k == findIndex(before, op'.date[1])
           IN  /\ Len(entries') = Len(before) - 1
               /\ \A i \in 1..(k - 1) : Recorded(entries'[i]) = Recorded(before[i])
               /\ \A i \in k..Len(entries') : Recorded(entries'[i]) = Recorded(before[i + 1])
               /\ (k = 1 /\ Len(entries') >= 1) =>
                      <<entries'[1].changeKg, entries'[1].changePercent,
                        entries'[1].dailyChange>> = <<Zero, Zero, Zero>>]_vars

-----------------------------------------------------------------------------
(* Properties of the size check *)

DocumentTooLargeError(v) == ~v.isValid /\ v.errors = <<Err("tooMany", -1)>> /\ v.data = <<>>

\* C21: a document whose entries are an array ends with the too-many-
\* entries error alone, and with no data, exactly when the array has more
\* than 10,000 elements; an array of exactly 10,000 elements goes on to the
\* loop over its elements, which looks at each of them.
C21_SizeBoundExact ==
    (Validated /\ document.isObject /\ document.entries.isArray) =>
        LET v == validation[1]
            n == ArrayLength(document.entries)
        IN  /\ DocumentTooLargeError(v) <=> n > 10000
            /\ n <= 10000 =>
                   \/ NoValidEntriesError(v)
                   \/ (v.data # <<>>
                        /\ Len(v.data[1].entries) + Len(EntryWarnings(v)) = n)

\* an array of exactly 10,000 valid elements was imported whole
C21_Witness ==
    /\ Validated
    /\ ArrayLength(document.entries) = 10000
    /\ Imports(validation[1])
    /\ Len(validation[1].data[1].entries) = 10000

-----------------------------------------------------------------------------
(* Properties of the settings block *)

\* C22: the settings validateBackupData returns have the keys theme,
\* timelineView and reminder and no others; theme is set only to light or
\* dark and timelineView only to daily, weekly or monthly, each to the
\* value of the document; a value outside those sets and a key of another
\* name leave no trace, and errors and isValid are what they are for the
\* same document without settings.
C22_SettingsWhitelist ==
    (Validated /\ validation[1].data # <<>>) =>
        LET v == validation[1]
            given == document.settings
            kept == v.data[1].settings
            plain == validateBackupData([document EXCEPT !.settings = NoExtras.settings])
        IN  /\ DOMAIN kept = {"theme", "timelineView", "reminder"}
            /\ kept.theme # <<>> =>
                   /\ kept.theme[1] \in {<<"light">>, <<"dark">>}
                   /\ given.theme = Str(kept.theme[1])
            /\ kept.timelineView # <<>> =>
                   /\ kept.timelineView[1] \in {<<"daily">>, <<"weekly">>, <<"monthly">>}
                   /\ given.timelineView = Str(kept.timelineView[1])
            /\ kept.reminder # <<>> => given.reminder.type = "string"
            /\ v.errors = plain.errors
            /\ v.isValid = plain.isValid

\* a document with the theme blue, the view mode yearly and a key
\* language was imported without a warning and with no setting set
C22_Witness ==
    /\ Validated
    /\ document.isObject
    /\ document.settings = OddExtras.settings
    /\ Imports(validation[1])
    /\ validation[1].errors = <<>>
    /\ validation[1].data[1].settings =
           [theme |-> <<>>, timelineView |-> <<>>, reminder |-> <<>>]

-----------------------------------------------------------------------------
(* Properties of the sheet sync *)

\* handleSync has just written the fetched data
Synced == op.name = "sync" /\ op.outcome = "ok"

\* C23: after a successful spreadsheet sync the persisted entries are
\* sorted ascending by date and their derived fields are the ones
\* recomputed from the sequence.
C23_SyncNormalises ==
    Synced => SortedAscending(Stored(lsEntries)) /\ DerivedFieldsHold(Stored(lsEntries))

-----------------------------------------------------------------------------
(* Properties of the sign-in *)

\* C27: at most one token-refresh timer is active at any time, and after
\* signOut no refresh timer is active: none in the state signOut leaves,
\* and none after the step that follows it (a token response; a new signIn
\* call starts no timer before its response).
C27_OneRefreshTimer ==
    [][/\ Cardinality(intervals') <= 1
       /\ (op.name = "signOut" \/ op'.name = "signOut") => intervals' = {}]_vars

\* the first half of C27 on its own, with what signOut leaves behind
OneRefreshTimer ==
    /\ Cardinality(intervals) <= 1
    /\ op.name = "signOut" => intervals = {}

-----------------------------------------------------------------------------
(* Properties of the sync status *)

\* no fetch of any call is still waiting
FetchesSettled ==
    \A k \in 1..Len(syncs) :
        syncs[k].weight.state # "pending" /\ syncs[k].target.state # "pending"

\* Promise.all of the call rejected
SyncRejected(call) == call.weight.state = "rejected" \/ call.target.state = "rejected"

\* C29: when the last syncFromSheets call rejected because one of its two
\* fetches failed, then once the fetches have settled the sync status is
\* 'error' and lastSyncTime was not set during that call, whichever fetch
\* completed first.
C29_RejectedSyncLeavesError ==
    (Len(syncs) > 0 /\ FetchesSettled /\ SyncRejected(syncs[Len(syncs)]))
        => syncStatus = "error" /\ lastSyncTime # <<Len(syncs)>>

-----------------------------------------------------------------------------
(* Properties of the onboarding *)

\* C24: once the user has completed or skipped the onboarding (the flag is
\* stored), the modal is not shown, on the load it was finished in and on
\* every later load, and the flag stays stored.
C24_OnboardingOnce ==
    [][lsOnboarding = Json(TRUE) => ~OnboardingShown' /\ lsOnboarding' = Json(TRUE)]_vars

\* the dashboard of a load that came after the onboarding was skipped
C24_Witness ==
    /\ lsOnboarding = Json(TRUE)
    /\ op.name = "load"
    /\ Dashboard
    /\ ~OnboardingShown

-----------------------------------------------------------------------------
(* Properties of the install prompt *)

\* C25: while fewer than 7 days have passed since the user dismissed the
\* install prompt, the prompt is not shown, whatever events and timers
\* arrive.
C25_DismissedForSevenDays ==
    (lsDismissed.state = "json" /\ now - lsDismissed.val[1] < DismissalDays) => ~PromptShown

-----------------------------------------------------------------------------
(* Properties of the service worker *)

\* no fetch handler is at work and none has left a cache write or a trim
\* running
Quiescent == \A h \in 1..MaxHandlers : handlers[h] = Idle

\* C26: whenever no fetch handler is in progress the dynamic cache holds at
\* most 50 entries.
C26_CacheBounded == Quiescent => dynamicCache <= MAX_DYNAMIC_CACHE_SIZE

-----------------------------------------------------------------------------
(* Properties of overlapping calls *)

\* what weightwatch-entries holds
Persisted == IF lsEntries.state = "json" THEN lsEntries.val[1] ELSE <<>>

\* call j was issued while call i was under way, for two different dates that
\* had no entry and that no other call carries
Overlapping(i, j) ==
    /\ i \in adds[j].concurrent
    /\ adds[i].entry.date # adds[j].entry.date
    /\ ~adds[i].existed /\ ~adds[j].existed
    /\ \A k \in 1..Len(adds) \ {i, j} :
           adds[k].entry.date \notin {adds[i].entry.date, adds[j].entry.date}

AllCompleted == \A k \in 1..Len(adds) : adds[k].state # "pending"

\* C28: when addWeightEntry calls for different dates without an entry
\* overlap, then once all calls have completed the persisted collection
\* holds an entry for each of the dates, with the weight of its call, and
\* the derived fields of the collection are consistent.
C28_NoLostUpdate ==
    AllCompleted =>
        \A i, j \in 1..Len(adds) :
            Overlapping(i, j) =>
                /\ \A c \in {i, j} :
                       \E n \in 1..Len(Persisted) :
                           /\ Persisted[n].date = adds[c].entry.date
                           /\ Persisted[n].weight = adds[c].entry.weight
                /\ DerivedFieldsHold(Persisted)

\* two overlapping calls have completed, the later one first
C28_Witness ==
    /\ Len(adds) = 2
    /\ AllCompleted
    /\ Overlapping(1, 2)
    /\ op.date = <<adds[1].entry.date>>

-----------------------------------------------------------------------------
(* Properties of the screens *)

\* C30: whatever entries were added, edited and deleted and whatever backup
\* was restored, the screen the App renders once it has loaded is the
\* dashboard, the one screen with the add-entry button.
C30_AddEntryAvailable == ~loading => Dashboard

\* the same for the screens that a load from storage ends in: these stay
\* until storage changes
AddEntryAvailableAfterLoad == op.name = "load" => Dashboard

====
